---- MODULE Spec2Model ----
(***************************************************************************)
(* Verification model of workflow-use:                                     *)
(*   - the Workflow / WorkflowStep / WorkflowResult data model             *)
(*     (src/workflow_use/models/workflow.py)                               *)
(*   - the ServiceManager launcher (src/main.py)                           *)
(*   - the IntegratedLauncher (src/launch-integrated-suite.py)             *)
(*   - the ChatService (src/workflows/backend/chat_service.py)             *)
(*                                                                         *)
(* Specifications:                                                         *)
(*   Spec        Workflow step collection: construction (validate_steps),  *)
(*               add_step, remove_step                                     *)
(*   SpecAdd     Workflow construction followed by add_step                *)
(*   SpecExec    Workflow execution counters: mark_executed, success_rate  *)
(*   SpecResult  WorkflowResult: construction, mark_completed              *)
(*   SpecResultNaive  the same, every datetime handed in being naive       *)
(*   SpecStep    WorkflowStep construction (validate_config)               *)
(*   SpecSvc     ServiceManager: start_backend / start_webui /             *)
(*               start_workflow_ui, wait_for_service, cleanup_processes    *)
(*   SpecSvcFair the same, the running operation going on                  *)
(*   SpecStatus  ServiceManager with get_service_status                    *)
(*   SpecProbe   wait_for_service of both launchers on its own             *)
(*   SpecMain    one run of main() of src/main.py                          *)
(*   SpecStatusCommand  one run of "main.py status" beside another         *)
(*               invocation of main.py                                     *)
(*   SpecLauncher  one run of IntegratedLauncher.run                       *)
(*   SpecShutdown  one run of either launcher, its shutdown going on       *)
(*   SpecChat    ChatService: create_session, process_user_message,        *)
(*               cancel_session, delete_session                            *)
(***************************************************************************)
EXTENDS Integers, Sequences, FiniteSets, TLC

(***************************************************************************)
(* Bounds of the model.                                                    *)
(***************************************************************************)
\* add_step is offered while the workflow holds fewer steps than this
MaxSteps == 2
\* largest order value a caller supplies (orders are >= 0: Field(..., ge=0))
MaxOrder == 2
\* longest depends_on list of a step handed to add_step
MaxDeps == 2
\* longest step list handed to the Workflow constructor
MaxCtorSteps == 3
\* longest depends_on list of a step handed to the Workflow constructor
MaxCtorDeps == 1
\* mark_executed calls per workflow
MaxCalls == 4
\* largest execution_count / success_count handed to the constructor
MaxInitCount == 2
\* the clock (datetime.utcnow) runs over 0..MaxTime
MaxTime == 3
\* mark_completed calls per WorkflowResult
MaxMarks == 2
\* start operations per ServiceManager
MaxStarts == 2
\* largest timeout handed to a wait_for_service that is called on its own
MaxProbeTimeout == 4

\* step identifiers (WorkflowStep.id is a str)
Ids == {"a", "b", "c"}

VARIABLES
    \* ---- Workflow ----
    wf,                 \* "none" before the constructor ran, then "built", or
                        \* "rejected" when the validator raised (no object exists)
    steps,              \* Workflow.steps: sequence of step records
    execution_count,    \* Workflow.execution_count
    success_count,      \* Workflow.success_count
    last_executed_at,   \* Workflow.last_executed_at (-1: None)
    updated_at,         \* Workflow.updated_at
    last,               \* history: the last Workflow operation, its input, its outcome
    calls,              \* history: <<constructor counters, mark_executed calls, calls with success>>
    \* ---- WorkflowResult ----
    result,             \* the WorkflowResult's fields (exists: FALSE before construction)
    rlast,              \* history: the last WorkflowResult operation and how it ended
    marks,              \* history: mark_completed calls made, and those that returned
    \* ---- ServiceManager ----
    processes,          \* ServiceManager.processes: the dict, in key order
    start_times,        \* ServiceManager.start_times
    procs,              \* the operating system's view: pid -> "running" | "exited"
    pc,                 \* where the running operation stands ("idle": none runs)
    service_name,       \* the service of the running start operation
    attempt,            \* wait_for_service: the loop variable i
    timeout,            \* wait_for_service: the parameter timeout
    elapsed,            \* history: seconds since wait_for_service was entered
    probe_ret,          \* history: what the last wait_for_service call returned
    last_response,      \* history: what the attempt just made met ("none" otherwise)
    todo,               \* cleanup_processes: the dict entries still to visit
    svc_state,          \* history: each service's lifecycle state
    ret,                \* history: what each service's last start operation returned
    opinfo,             \* history: the last start operation
    probe_calls,        \* history: wait_for_service invocations per service
    os_name,            \* os.name of the host: "posix" or "nt"
    cl,                 \* history: what the last cleanup_processes call found at its
                        \* entry, the services it reported as failed, the number of start
                        \* operations begun before it, and whether it followed the call
                        \* before it with no start operation between
    visits,             \* history: per handle the last cleanup_processes call visited,
                        \* the signals it sent to it
    \* ---- main() of src/main.py ----
    command,            \* sys.argv[1].lower() ("none" before main runs)
    mpc,                \* where main stands
    remaining,          \* the start operations main has still to call
    services_started,   \* the list services_started of the suite command
    exit_code,          \* the exit status of the program (-1 while it runs)
    interrupted,        \* history: a KeyboardInterrupt was delivered
    settled,            \* history: seconds slept since the last start operation returned
    \* ---- IntegratedLauncher (src/launch-integrated-suite.py) ----
    lpc,                \* where run() stands
    l_processes,        \* IntegratedLauncher.processes: the list of handles (pids)
    l_procs,            \* the operating system's view: pid -> "running" | "killed"
                        \* (SIGKILL sent, the exit not yet seen by poll) | "exited"
    l_groups,           \* history: pid -> the process group the child was spawned into
    l_todo,             \* cleanup: the handles still to visit
    l_cl,               \* history: what the last cleanup call found at its entry, the
                        \* handles it reported an error for, whether a call preceded it
    l_visits,           \* history: per handle the last cleanup call visited, the signals sent
    l_cont,             \* who called the running cleanup: "handler" or "finally"
    l_ret,              \* the exit status of the program (-1 while it runs)
    l_attempt,          \* wait_for_service: rounds of the loop made
    l_timeout,          \* wait_for_service: the parameter timeout
    l_elapsed,          \* history: seconds since wait_for_service was entered
    l_probe_ret,        \* history: what wait_for_service returned
    l_last_response,    \* history: what the last urlopen met
    \* ---- get_service_status ----
    report,             \* history: the get_service_status call just made: the rows of
                        \* the table it built, whether it raised, and each service's
                        \* lifecycle state when it was called
    other_processes,    \* self.processes of the ServiceManager of another invocation
                        \* of main.py on the same machine
    \* ---- WorkflowStep ----
    wstep,              \* history: the last WorkflowStep construction: its input and
                        \* whether the object was built
    \* ---- ChatService ----
    sessions,           \* ChatService.sessions: session id -> the ChatSession's status
                        \* and messages
    active_agents,      \* ChatService.active_agents: session id -> the agent registered
                        \* for it (named by the call that created it)
    chat_calls,         \* the process_user_message calls made so far: the session, where
                        \* the call stands, how it ended
    scheduled,          \* the cancel_session coroutines that delete_session handed to
                        \* asyncio.create_task and that have not run yet
    created,            \* number of sessions created so far (the n-th uuid4 is n)
    chat_hist,          \* history: the sessions cancel_session returned True for with
                        \* no process_user_message call made for them since, those
                        \* deleted while an agent was registered, those whose scheduled
                        \* cancellation has run, and the last cancel_session or
                        \* delete_session call
    \* ---- clock ----
    now                 \* what datetime.utcnow() reads

wfVars == <<wf, steps, execution_count, success_count, last_executed_at,
            updated_at, last, calls>>

resVars == <<result, rlast, marks>>

svcVars == <<processes, start_times, procs, pc, service_name, attempt, timeout, elapsed,
             probe_ret, last_response, todo, svc_state, ret, opinfo, probe_calls, os_name, cl, visits>>

mainVars == <<command, mpc, remaining, services_started, exit_code, interrupted, settled>>

launcherVars == <<lpc, l_processes, l_procs, l_groups, l_todo, l_cl, l_visits, l_cont, l_ret,
                  l_attempt, l_timeout, l_elapsed, l_probe_ret, l_last_response>>

statusVars == <<report, other_processes>>

stepVars == <<wstep>>

chatVars == <<sessions, active_agents, chat_calls, scheduled, created, chat_hist>>

vars == <<wfVars, resVars, svcVars, mainVars, launcherVars, statusVars, stepVars, chatVars, now>>

(***************************************************************************)
(* Helpers                                                                 *)
(***************************************************************************)
Range(s) == {s[i] : i \in DOMAIN s}

SetMax(S) == CHOOSE x \in S : \A y \in S : y <= x

\* all lists over S of length at most n
ListsUpTo(S, n) == UNION {[1..k -> S] : k \in 0..n}

(***************************************************************************)
(* WorkflowStep: the fields the Workflow's operations read and write.      *)
(***************************************************************************)
WorkflowStep(i, o, d) == [id |-> i, order |-> o, depends_on |-> d]

NoStep == WorkflowStep("", 0, <<>>)

\* steps a caller hands to add_step
StepInputs ==
    {WorkflowStep(i, o, d) : i \in Ids, o \in 0..MaxOrder, d \in ListsUpTo(Ids, MaxDeps)}

\* step lists a caller hands to the constructor
CtorInputs ==
    ListsUpTo({WorkflowStep(i, o, d) :
                   i \in Ids, o \in 0..MaxOrder, d \in ListsUpTo(Ids, MaxCtorDeps)},
              MaxCtorSteps)

step_ids(v) == {v[i].id : i \in DOMAIN v}

orders(v) == {v[i].order : i \in DOMAIN v}

\* next(s for s in v if s.id == dep_id)
dep_step(v, dep_id) ==
    v[CHOOSE i \in DOMAIN v :
          /\ v[i].id = dep_id
          /\ \A k \in DOMAIN v : v[k].id = dep_id => i <= k]

\* a mutant: the check follows the dependency one step further
dep_check_two_deep(v, i, j) ==
    LET dep_id == v[i].depends_on[j] IN
    IF dep_id \notin step_ids(v) THEN "nonexistent_dependency"
    ELSE IF v[i].id \in Range(dep_step(v, dep_id).depends_on) THEN "circular_dependency"
    ELSE IF \E k \in DOMAIN v :
                /\ v[k].id \in Range(dep_step(v, dep_id).depends_on)
                /\ v[i].id \in Range(v[k].depends_on)
         THEN "circular_dependency"
    ELSE "ok"

\* the body of the inner loop of validate_steps for step i, dependency j
dep_check(v, i, j) ==
    LET dep_id == v[i].depends_on[j] IN
    IF dep_id \notin step_ids(v) THEN "nonexistent_dependency"
    ELSE IF v[i].id \in Range(dep_step(v, dep_id).depends_on) THEN "circular_dependency"
    ELSE "ok"

\* a mutant: the circular-dependency check is left out
validate_dependencies_nocycle(v) ==
    IF \E i \in DOMAIN v : \E j \in DOMAIN v[i].depends_on :
           v[i].depends_on[j] \notin step_ids(v)
    THEN "nonexistent_dependency"
    ELSE "ok"

\* the two nested loops: the first (step, dependency) that raises decides
validate_dependencies(v) ==
    LET pairs == UNION {{<<i, j>> : j \in DOMAIN v[i].depends_on} : i \in DOMAIN v}
        bad == {p \in pairs : dep_check(v, p[1], p[2]) # "ok"}
    IN IF bad = {} THEN "ok"
       ELSE LET first == CHOOSE p \in bad :
                            \A q \in bad : p[1] < q[1] \/ (p[1] = q[1] /\ p[2] <= q[2])
            IN dep_check(v, first[1], first[2])

\* a mutant: a step's dependency on itself is skipped by the dependency loop
validate_steps_skips_self(v) ==
    IF Len(v) = 0 THEN "ok"
    ELSE IF Len(v) # Cardinality(step_ids(v)) THEN "duplicate_ids"
    ELSE IF Len(v) # Cardinality(orders(v)) THEN "duplicate_orders"
    ELSE validate_dependencies(
             [i \in DOMAIN v |->
                 [v[i] EXCEPT !.depends_on = SelectSeq(@, LAMBDA d : d # v[i].id)]])

\* Workflow.validate_steps: "ok" or the ValueError it raises
validate_steps(v) ==
    IF Len(v) = 0 THEN "ok"
    ELSE IF Len(v) # Cardinality(step_ids(v)) THEN "duplicate_ids"
    ELSE IF Len(v) # Cardinality(orders(v)) THEN "duplicate_orders"
    ELSE validate_dependencies(v)

(***************************************************************************)
(* Workflow                                                                *)
(***************************************************************************)
\* history record; aux: the ids of the steps that depended on a removed step
Op(op, v, step, id, res, aux) ==
    [op |-> op, v |-> v, step |-> step, id |-> id, res |-> res, aux |-> aux]

\* Workflow(steps=v, execution_count=e, success_count=s): the validator runs on v;
\* when it raises no Workflow comes to exist
Construct(v, e, s) ==
    /\ wf = "none"
    /\ LET r == validate_steps(v) IN
       /\ last' = Op("construct", v, NoStep, "", r, {})
       /\ IF r = "ok"
          THEN /\ wf' = "built"
               /\ steps' = v
               /\ execution_count' = e
               /\ success_count' = s
               /\ updated_at' = now
               /\ calls' = <<<<e, s>>, 0, 0>>
          ELSE /\ wf' = "rejected"
               /\ UNCHANGED <<steps, execution_count, success_count, updated_at, calls>>
    /\ UNCHANGED <<last_executed_at, now, resVars, svcVars>>

\* a mutant: the order is assigned whenever the workflow has steps, whatever
\* order the caller supplied
assigned_order_always(step, cur) ==
    IF Len(cur) > 0
    THEN SetMax(orders(cur)) + 1
    ELSE step.order

\* the order add_step gives the step
assigned_order(step, cur) ==
    IF step.order = 0 /\ Len(cur) > 0
    THEN SetMax(orders(cur)) + 1
    ELSE step.order

\* Workflow.add_step: no validation is run on the new collection
add_step(step) ==
    /\ wf = "built"
    /\ Len(steps) < MaxSteps
    /\ assigned_order(step, steps) <= MaxOrder + 1    \* caps the auto-assigned order
    /\ steps' = Append(steps, [step EXCEPT !.order = assigned_order(step, steps)])
    /\ updated_at' = now
    /\ last' = Op("add_step", <<>>, step, step.id, "ok", {})
    /\ UNCHANGED <<wf, execution_count, success_count, last_executed_at, calls, now>>
    /\ UNCHANGED <<resVars, svcVars>>

\* [s for s in steps if s.id != step_id]
without_step(cur, step_id) == SelectSeq(cur, LAMBDA s : s.id # step_id)

\* [dep for dep in step.depends_on if dep != step_id]
without_dep(deps, step_id) == SelectSeq(deps, LAMBDA d : d # step_id)

\* a mutant: the cascade is forgotten
remove_cascade_forgotten(cur, step_id) == without_step(cur, step_id)

\* the steps remove_step leaves when it found step_id
remove_cascade(cur, step_id) ==
    LET kept == without_step(cur, step_id) IN
    [k \in DOMAIN kept |->
        [kept[k] EXCEPT !.depends_on = without_dep(kept[k].depends_on, step_id)]]

\* Workflow.remove_step
remove_step(step_id) ==
    /\ wf = "built"
    /\ LET kept == without_step(steps, step_id) IN
       IF Len(kept) < Len(steps)
       THEN /\ steps' = remove_cascade(steps, step_id)
            /\ updated_at' = now
            /\ last' = Op("remove_step", <<>>, NoStep, step_id, "true",
                        {kept[k].id : k \in {k \in DOMAIN kept :
                                                step_id \in Range(kept[k].depends_on)}})
       ELSE /\ steps' = kept
            /\ UNCHANGED updated_at
            /\ last' = Op("remove_step", <<>>, NoStep, step_id, "false", {})
    /\ UNCHANGED <<wf, execution_count, success_count, last_executed_at, calls, now>>
    /\ UNCHANGED <<resVars, svcVars>>

\* sorted(..., key=order): a stable insertion of x behind every element not above it
RECURSIVE insert_sorted(_, _)
insert_sorted(s, x) ==
    IF s = <<>> THEN <<x>>
    ELSE IF x.order < Head(s).order THEN <<x>> \o s
    ELSE <<Head(s)>> \o insert_sorted(Tail(s), x)

RECURSIVE sorted_by_order(_)
sorted_by_order(s) ==
    IF s = <<>> THEN <<>>
    ELSE insert_sorted(sorted_by_order(SubSeq(s, 1, Len(s) - 1)), s[Len(s)])

\* Workflow.get_steps_by_order
get_steps_by_order == sorted_by_order(steps)

(***************************************************************************)
(* Workflow execution counters                                             *)
(***************************************************************************)
\* datetime.utcnow() moves on
Tick ==
    /\ now < MaxTime
    /\ now' = now + 1
    /\ UNCHANGED <<wfVars, resVars, svcVars>>

\* a mutant: the success flag is ignored and every execution counts as a success
mark_executed_counts_all(success) ==
    /\ wf = "built"
    /\ calls[2] < MaxCalls
    /\ last_executed_at' = now
    /\ execution_count' = execution_count + 1
    /\ success_count' = success_count + 1
    /\ updated_at' = now
    /\ last' = Op("mark_executed", <<>>, NoStep, "", "ok", {})
    /\ calls' = <<calls[1], calls[2] + 1, calls[3] + (IF success THEN 1 ELSE 0)>>
    /\ UNCHANGED <<wf, steps, now, resVars, svcVars>>

\* Workflow.mark_executed
mark_executed(success) ==
    /\ wf = "built"
    /\ calls[2] < MaxCalls
    /\ last_executed_at' = now
    /\ execution_count' = execution_count + 1
    /\ success_count' = IF success THEN success_count + 1 ELSE success_count
    /\ updated_at' = now
    /\ last' = Op("mark_executed", <<>>, NoStep, "", "ok", {})
    /\ calls' = <<calls[1], calls[2] + 1, calls[3] + (IF success THEN 1 ELSE 0)>>
    /\ UNCHANGED <<wf, steps, now, resVars, svcVars>>

\* Workflow.success_rate: the quotient success_count / execution_count as the
\* pair <<numerator, denominator>>, 0.0 as <<0, 1>>
success_rate ==
    IF execution_count = 0 THEN <<0, 1>> ELSE <<success_count, execution_count>>

\* the quotient q equals the integer n
rate_equals(q, n) == q[1] = n * q[2]

(***************************************************************************)
(* WorkflowResult                                                          *)
(***************************************************************************)
\* class WorkflowStatus
WorkflowStatus ==
    {"draft", "ready", "running", "paused", "completed", "failed", "cancelled"}

\* Optional[...]: <<>> is None, <<x>> the value x
None == <<>>

Some(x) == <<x>>

\* a datetime: the instant t, and whether it carries a tzinfo (the field's type,
\* datetime, admits both)
DateTime(t, aware) == [t |-> t, aware |-> aware]

DateTimes == {DateTime(t, aware) : t \in 0..MaxTime, aware \in BOOLEAN}

\* datetime.utcnow(): a naive datetime
utcnow == DateTime(now, FALSE)

\* (a - b).total_seconds(); Python raises TypeError (None here) when one
\* operand is naive and the other aware
datetime_sub(a, b) == IF a.aware = b.aware THEN Some(a.t - b.t) ELSE None

NoResult ==
    [exists |-> FALSE, status |-> "draft", started_at |-> DateTime(0, FALSE),
     completed_at |-> None, duration_seconds |-> None]

ROp(op, success, raised) == [op |-> op, success |-> success, raised |-> raised]

\* WorkflowResult(status=, started_at=, completed_at=, duration_seconds=):
\* the class has no validator
ConstructResult(status, started_at, completed_at, duration_seconds) ==
    /\ ~result.exists
    /\ result' = [exists |-> TRUE, status |-> status, started_at |-> started_at,
                  completed_at |-> completed_at,
                  duration_seconds |-> duration_seconds]
    /\ rlast' = ROp("construct", FALSE, "ok")
    /\ marks' = <<0, 0>>
    /\ UNCHANGED <<wfVars, svcVars, now>>

\* WorkflowResult.mark_completed. started_at is a required datetime, which is
\* always truthy, so the duration is always computed; the subtraction raises
\* after completed_at was assigned when started_at is timezone-aware.
mark_completed(success) ==
    /\ result.exists
    /\ marks[1] < MaxMarks
    /\ LET completed_at == utcnow
           duration == datetime_sub(completed_at, result.started_at)
       IN IF duration = None
          THEN /\ result' = [result EXCEPT !.completed_at = Some(completed_at)]
               /\ rlast' = ROp("mark_completed", success, "TypeError")
               /\ marks' = <<marks[1] + 1, marks[2]>>
          ELSE /\ result' = [result EXCEPT
                                !.completed_at = Some(completed_at),
                                !.duration_seconds = duration,
                                !.status = IF success THEN "completed" ELSE "failed"]
               /\ rlast' = ROp("mark_completed", success, "ok")
               /\ marks' = <<marks[1] + 1, marks[2] + 1>>
    /\ UNCHANGED <<wfVars, svcVars, now>>

(***************************************************************************)
(* WorkflowStep: construction (validate_config)                            *)
(***************************************************************************)
\* the values of StepType
StepTypes == {"browser_action", "api_call", "data_processing", "condition", "loop",
              "delay", "notification", "file_operation", "ai_task"}

\* the config keys validate_config looks at
ConfigKeys == {"action", "target", "url", "method", "duration_seconds"}

\* a Python value: its type, its numeric value, and whether it is float('nan')
Val(type, value, nan) == [type |-> type, value |-> value, nan |-> nan]

\* values handed in under "duration_seconds"
DurationValues ==
    {Val("int", 5, FALSE), Val("int", 0, FALSE), Val("int", -1, FALSE),
     Val("float", 2, FALSE), Val("float", -2, FALSE), Val("float", 0, TRUE),
     Val("bool", 1, FALSE), Val("bool", 0, FALSE),
     Val("str", 5, FALSE), Val("NoneType", 0, FALSE)}

\* the keyword argument config: given or left out, the keys of the dict and
\* the value under "duration_seconds" (None when the key is absent)
ConfigInputs ==
    {[given |-> g, keys |-> ks, duration |-> d] :
        g \in BOOLEAN, ks \in SUBSET ConfigKeys, d \in DurationValues}

\* the inputs that differ: a config left out has no keys, and the value of
\* "duration_seconds" is read only when the key is there
ConfigCases ==
    {c \in ConfigInputs :
        /\ ~c.given => c.keys = {}
        /\ "duration_seconds" \notin c.keys => c.duration = Val("NoneType", 0, FALSE)}

\* isinstance(v, (int, float)): bool is a subclass of int
isinstance_int_float(v) == v.type \in {"int", "float", "bool"}

\* v <= 0: every comparison with nan is False
le_zero(v) == ~v.nan /\ v.value <= 0

\* the first of the fields, in list order, that is not in the dict ("" when
\* all are there)
first_missing(fields, keys) ==
    IF \A i \in DOMAIN fields : fields[i] \in keys THEN ""
    ELSE fields[CHOOSE i \in DOMAIN fields :
                    /\ fields[i] \notin keys
                    /\ \A j \in 1..(i - 1) : fields[j] \in keys]

\* WorkflowStep.validate_config: "ok" when v is returned, the ValueError
\* otherwise
validate_config(step_type, c) ==
    CASE step_type = "browser_action" ->
            IF first_missing(<<"action", "target">>, c.keys) # ""
            THEN "Browser action step requires a field" ELSE "ok"
      [] step_type = "api_call" ->
            IF first_missing(<<"url", "method">>, c.keys) # ""
            THEN "API call step requires a field" ELSE "ok"
      [] step_type = "delay" ->
            IF "duration_seconds" \notin c.keys
            THEN "Delay step requires 'duration_seconds' in config"
            ELSE IF ~isinstance_int_float(c.duration) \/ le_zero(c.duration)
            THEN "duration_seconds must be a positive number"
            ELSE "ok"
      [] OTHER -> "ok"

\* whether pydantic runs the validator of the field config: a validator that is
\* not declared always=True is skipped when the field is left to its default
validator_runs(c) == c.given

StepBuilt(n, step_type, c, error) ==
    [n |-> n, step_type |-> step_type, config |-> c, error |-> error]

NoStepBuilt == StepBuilt(0, "none", [given |-> FALSE, keys |-> {},
                                     duration |-> Val("NoneType", 0, FALSE)], "none")

\* WorkflowStep(name=..., step_type=step_type, order=..., config=...), the other
\* fields valid: error is "ok" when the object is built
ConstructStep(step_type, c) ==
    /\ wstep' = StepBuilt(1, step_type, c,
                          IF validator_runs(c) THEN validate_config(step_type, c) ELSE "ok")
    /\ UNCHANGED <<wfVars, resVars, svcVars, now>>

(***************************************************************************)
(* ServiceManager                                                          *)
(***************************************************************************)
\* the keys of ServiceManager.health_checks
Services == {"backend", "webui", "ui"}

\* wait_for_service(service_name, 30) in start_backend
BackendProbeTimeout == 30
\* wait_for_service(service_name, 60) in start_webui
WebuiProbeTimeout == 60
\* wait_for_service(service_name, 30) in start_workflow_ui
UiProbeTimeout == 30

probe_timeout(s) ==
    CASE s = "backend" -> BackendProbeTimeout
      [] s = "webui" -> WebuiProbeTimeout
      [] s = "ui" -> UiProbeTimeout

\* a dict as the sequence of its items, in key order
dict_keys(d) == {d[i].name : i \in DOMAIN d}

\* d[s] = pid: a new key goes last, a key already there keeps its place
dict_set(d, s, pid) ==
    IF s \in dict_keys(d)
    THEN [i \in DOMAIN d |-> IF d[i].name = s THEN [name |-> s, pid |-> pid] ELSE d[i]]
    ELSE Append(d, [name |-> s, pid |-> pid])

\* self.start_times[service_name] = start_time
set_start_time(st, s, t) ==
    [x \in DOMAIN st \cup {s} |-> IF x = s THEN t ELSE st[x]]

OpInfo(n, svc, popen) == [n |-> n, svc |-> svc, popen |-> popen]

\* start_backend / start_webui / start_workflow_ui up to the try block:
\* pre_ok is whether the directory checks (and the clone, the npm install) pass;
\* when they do not the operation returns False before anything is recorded
start_enter(s, pre_ok) ==
    /\ pc = "idle"
    /\ opinfo' = OpInfo(opinfo.n + 1, s, "none")
    /\ IF pre_ok
       THEN /\ start_times' = set_start_time(start_times, s, now)
            /\ svc_state' = [svc_state EXCEPT ![s] = "starting"]
            /\ ret' = [ret EXCEPT ![s] = "none"]
            /\ pc' = "spawn"
            /\ service_name' = s
       ELSE /\ ret' = [ret EXCEPT ![s] = "false"]
            /\ UNCHANGED <<start_times, svc_state, pc, service_name>>
    /\ UNCHANGED <<processes, procs, attempt, todo, probe_calls, os_name, timeout, elapsed,
                   probe_ret, last_response, cl, visits>>
    /\ UNCHANGED <<wfVars, resVars, now>>

\* a mutant: the except branch goes on to the health probe
spawn_failed_then_probes(s) ==
    /\ svc_state' = [svc_state EXCEPT ![s] = "start-failed"]
    /\ probe_calls' = [probe_calls EXCEPT ![s] = @ + 1]
    /\ pc' = "probe"
    /\ attempt' = 0
    /\ timeout' = probe_timeout(s)
    /\ elapsed' = 0
    /\ probe_ret' = "none"
    /\ last_response' = "none"
    /\ UNCHANGED <<processes, procs, ret>>

\* subprocess.Popen raised: the except branch logs and returns False
spawn_failed(s) ==
    /\ svc_state' = [svc_state EXCEPT ![s] = "start-failed"]
    /\ ret' = [ret EXCEPT ![s] = "false"]
    /\ pc' = "idle"
    /\ UNCHANGED <<processes, procs, attempt, timeout, elapsed, probe_ret, last_response,
                   probe_calls>>

\* subprocess.Popen returned: the handle is registered and wait_for_service
\* is called
spawn_succeeded(s) ==
    /\ procs' = Append(procs, "running")
    /\ processes' = dict_set(processes, s, Len(procs) + 1)
    /\ probe_calls' = [probe_calls EXCEPT ![s] = @ + 1]
    /\ pc' = "probe"
    /\ attempt' = 0
    /\ timeout' = probe_timeout(s)
    /\ elapsed' = 0
    /\ probe_ret' = "none"
    /\ last_response' = "none"
    /\ UNCHANGED <<svc_state, ret>>

\* the subprocess.Popen call of the running start operation
spawn(popen_ok) ==
    /\ pc = "spawn"
    /\ opinfo' = [opinfo EXCEPT !.popen = IF popen_ok THEN "ok" ELSE "raised"]
    /\ IF popen_ok THEN spawn_succeeded(service_name) ELSE spawn_failed(service_name)
    /\ UNCHANGED <<start_times, service_name, todo, os_name, cl, visits>>
    /\ UNCHANGED <<wfVars, resVars, now>>

\* requests.get(url, timeout=2)
AttemptTimeout == 2

\* await asyncio.sleep(1)
PollInterval == 1

\* what one requests.get meets: status 200, another status of the success
\* range (201..299), a status outside it, an exception raised at once
\* (connection refused), or no answer until the attempt's own timeout raises
Responses == {"200", "other_2xx", "other_status", "exception", "hang"}

\* the seconds the attempt takes
attempt_seconds(response) == IF response = "hang" THEN AttemptTimeout ELSE 0

\* a mutant: a RequestException ends the probe with False
after_failed_attempt_gives_up(response) ==
    IF response \in {"exception", "hang"} THEN "return_false" ELSE "sleep"

\* where the loop goes after an attempt that did not see status 200: the
\* except clause passes, and the sleep follows
after_failed_attempt(response) == "sleep"

\* wait_for_service: one requests.get of the loop. Only a 200 returns True;
\* another status or a RequestException falls through to the sleep.
probe_attempt(response) ==
    /\ pc = "probe"
    /\ elapsed' = elapsed + attempt_seconds(response)
    /\ last_response' = response
    /\ IF response = "200"
       THEN /\ svc_state' = [svc_state EXCEPT ![service_name] = "healthy"]
            /\ ret' = [ret EXCEPT ![service_name] = "true"]
            /\ probe_ret' = "true"
            /\ pc' = "idle"
       ELSE IF after_failed_attempt(response) = "sleep"
       THEN /\ pc' = "sleep"
            /\ UNCHANGED <<svc_state, ret, probe_ret>>
       ELSE /\ svc_state' = [svc_state EXCEPT ![service_name] = "degraded-but-running"]
            /\ ret' = [ret EXCEPT ![service_name] = "false"]
            /\ probe_ret' = "false"
            /\ pc' = "idle"
    /\ UNCHANGED <<processes, start_times, procs, service_name, attempt, timeout, todo, opinfo,
                   probe_calls, os_name, cl, visits>>
    /\ UNCHANGED <<wfVars, resVars, now>>

\* a mutant: after the sleep the probe looks at the process and gives up when
\* it has exited
probe_sleep_checks_child ==
    /\ pc = "sleep"
    /\ attempt' = attempt + 1
    /\ elapsed' = elapsed + PollInterval
    /\ last_response' = "none"
    /\ IF /\ attempt + 1 < timeout
          /\ ~\E i \in DOMAIN processes :
                 processes[i].name = service_name /\ procs[processes[i].pid] = "exited"
       THEN /\ pc' = "probe"
            /\ UNCHANGED <<svc_state, ret, probe_ret>>
       ELSE /\ svc_state' = [svc_state EXCEPT ![service_name] = "degraded-but-running"]
            /\ ret' = [ret EXCEPT ![service_name] = "false"]
            /\ probe_ret' = "false"
            /\ pc' = "idle"
    /\ UNCHANGED <<processes, start_times, procs, service_name, timeout, todo, opinfo,
                   probe_calls, os_name, cl, visits>>
    /\ UNCHANGED <<wfVars, resVars, now>>

\* wait_for_service: await asyncio.sleep(1), then the next round of the loop,
\* or, the range exhausted, return False: the start operation warns and
\* returns False, the process stays
probe_sleep ==
    /\ pc = "sleep"
    /\ attempt' = attempt + 1
    /\ elapsed' = elapsed + PollInterval
    /\ last_response' = "none"
    /\ IF attempt + 1 < timeout
       THEN /\ pc' = "probe"
            /\ UNCHANGED <<svc_state, ret, probe_ret>>
       ELSE /\ svc_state' = [svc_state EXCEPT ![service_name] = "degraded-but-running"]
            /\ ret' = [ret EXCEPT ![service_name] = "false"]
            /\ probe_ret' = "false"
            /\ pc' = "idle"
    /\ UNCHANGED <<processes, start_times, procs, service_name, timeout, todo, opinfo,
                   probe_calls, os_name, cl, visits>>
    /\ UNCHANGED <<wfVars, resVars, now>>

\* wait_for_service(s, t) called on its own: range(0) is empty and returns
\* False without an attempt
wait_for_service(s, t) ==
    /\ pc = "idle"
    /\ probe_ret = "none"
    /\ service_name' = s
    /\ timeout' = t
    /\ attempt' = 0
    /\ elapsed' = 0
    /\ last_response' = "none"
    /\ probe_calls' = [probe_calls EXCEPT ![s] = @ + 1]
    /\ IF t = 0
       THEN /\ probe_ret' = "false"
            /\ UNCHANGED pc
       ELSE /\ pc' = "probe"
            /\ UNCHANGED probe_ret
    /\ UNCHANGED <<processes, start_times, procs, todo, svc_state, ret, opinfo, os_name, cl,
                   visits>>
    /\ UNCHANGED <<wfVars, resVars, now>>

\* a child process ends by itself
child_exit(pid) ==
    /\ pid \in DOMAIN procs
    /\ procs[pid] = "running"
    /\ procs' = [procs EXCEPT ![pid] = "exited"]
    /\ UNCHANGED <<processes, start_times, pc, service_name, attempt, todo, svc_state, ret,
                   opinfo, probe_calls, os_name, timeout, elapsed, probe_ret, last_response, cl, visits>>
    /\ UNCHANGED <<wfVars, resVars, now>>

\* process.wait(timeout=5) in cleanup_processes
GracePeriod == 5

\* the seconds a process takes to exit once it got SIGTERM: at once, at the
\* end of the grace period, or not within it
ExitDelays == {0, GracePeriod, GracePeriod + 1}

\* where cleanup_processes may raise while it stops a process: nowhere, in the
\* graceful request (taskkill on nt), or in the forced kill
Raises == {"none", "term", "kill"}

Signal(sig, target) == [sig |-> sig, target |-> target]

\* what cleanup_processes found at its entry
entry_state(d, ps) ==
    IF d = <<>> THEN "empty"
    ELSE IF \A i \in DOMAIN d : ps[d[i].pid] = "exited" THEN "all_exited"
    ELSE "some_running"

\* cleanup_processes, entry: an empty dict returns at once
cleanup_begin ==
    /\ pc = "idle"
    /\ cl' = [pre |-> entry_state(processes, procs), errors |-> {},
              again |-> cl.at = opinfo.n, at |-> opinfo.n]
    /\ visits' = <<>>
    /\ IF processes = <<>>
       THEN UNCHANGED <<pc, todo>>
       ELSE /\ pc' = "cleanup"
            /\ todo' = processes
    /\ UNCHANGED <<processes, start_times, procs, service_name, attempt, svc_state, ret,
                   opinfo, probe_calls, os_name, timeout, elapsed, probe_ret, last_response>>
    /\ UNCHANGED <<wfVars, resVars, now>>

\* a mutant: the forced kill follows the graceful request whether or not the
\* process exited within the grace period
stop_signals_always_kill(os, raises, exit_after) ==
    IF os = "nt"
    THEN IF raises = "term" THEN <<>> ELSE <<Signal("taskkill /F", "tree")>>
    ELSE IF raises = "term" THEN <<>>
    ELSE IF raises = "kill" THEN <<Signal("SIGTERM", "group")>>
    ELSE <<Signal("SIGTERM", "group"), Signal("SIGKILL", "group")>>

\* the signals one round of the loop delivers to a running process: on nt a
\* forced kill of the process tree; otherwise SIGTERM to the process group
\* (os.killpg), and SIGKILL to the group when wait(timeout=5) timed out
stop_signals(os, raises, exit_after) ==
    IF os = "nt"
    THEN IF raises = "term" THEN <<>> ELSE <<Signal("taskkill /F", "tree")>>
    ELSE IF raises = "term" THEN <<>>
    ELSE IF exit_after <= GracePeriod THEN <<Signal("SIGTERM", "group")>>
    ELSE IF raises = "kill" THEN <<Signal("SIGTERM", "group")>>
    ELSE <<Signal("SIGTERM", "group"), Signal("SIGKILL", "group")>>

\* whether the round ends in the except branch
stop_raised(os, raises, exit_after) ==
    \/ raises = "term"
    \/ os = "posix" /\ raises = "kill" /\ exit_after > GracePeriod

\* a mutant: process.wait() is called without a timeout
stop_waited_unbounded(os, raises, exit_after) ==
    IF os = "nt" \/ raises = "term" THEN 0
    ELSE exit_after

\* the seconds the round spends in process.wait(timeout=5)
stop_waited(os, raises, exit_after) ==
    IF os = "nt" \/ raises = "term" THEN 0
    ELSE IF exit_after <= GracePeriod THEN exit_after
    ELSE GracePeriod

\* history record of one round: alive is whether the process was still alive at
\* the end of the grace period
Visit(name, pid, running, sigs, waited, alive, raised) ==
    [name |-> name, pid |-> pid, running |-> running, sigs |-> sigs,
     waited |-> waited, alive |-> alive, raised |-> raised]

\* a mutant: an exception while stopping a process ends the whole clean-up
rest_after_abort(raised, rest) == IF raised THEN <<>> ELSE rest

\* the handles left to visit after a round: the except branch sits inside the
\* loop, so the loop goes on
rest_after(raised, rest) == rest

\* cleanup_processes, one round of the loop over processes.items(): a process
\* that poll() finds running is stopped; an exception is caught and printed
cleanup_visit(raises, exit_after) ==
    /\ pc = "cleanup"
    /\ todo # <<>>
    /\ LET pid == Head(todo).pid
           name == Head(todo).name
           raised == stop_raised(os_name, raises, exit_after)
       IN IF procs[pid] = "running"
          THEN /\ raises = "kill" => (os_name = "posix" /\ exit_after > GracePeriod)
               /\ os_name = "nt" => exit_after = 0
               /\ procs' = IF raised THEN procs ELSE [procs EXCEPT ![pid] = "exited"]
               /\ svc_state' = IF raised THEN svc_state
                               ELSE [svc_state EXCEPT ![name] = "stopped"]
               /\ cl' = IF raised THEN [cl EXCEPT !.errors = @ \cup {name}] ELSE cl
               /\ visits' = Append(visits,
                               Visit(name, pid, TRUE,
                                     stop_signals(os_name, raises, exit_after),
                                     stop_waited(os_name, raises, exit_after),
                                     exit_after > GracePeriod, raised))
               /\ todo' = rest_after(raised, Tail(todo))
          ELSE /\ raises = "none"
               /\ exit_after = 0
               /\ visits' = Append(visits, Visit(name, pid, FALSE, <<>>, 0, FALSE, FALSE))
               /\ todo' = Tail(todo)
               /\ UNCHANGED <<procs, svc_state, cl>>
    /\ UNCHANGED <<processes, start_times, pc, service_name, attempt, ret, opinfo, probe_calls,
                   os_name, timeout, elapsed, probe_ret, last_response>>
    /\ UNCHANGED <<wfVars, resVars, now>>

\* cleanup_processes, after the loop: both dicts are cleared
cleanup_end ==
    /\ pc = "cleanup"
    /\ todo = <<>>
    /\ processes' = <<>>
    /\ start_times' = << >>
    /\ pc' = "idle"
    /\ UNCHANGED <<procs, service_name, attempt, todo, svc_state, ret, opinfo, probe_calls,
                   os_name, timeout, elapsed, probe_ret, last_response, cl, visits>>
    /\ UNCHANGED <<wfVars, resVars, now>>

(***************************************************************************)
(* ServiceManager.get_service_status                                       *)
(***************************************************************************)
\* the order in which get_service_status walks the services
StatusOrder == <<"backend", "webui", "ui">>

\* what inspecting a running process with psutil comes to: the figures, one of
\* the two exceptions the code catches, or another exception (psutil hands an
\* OSError it has no class for on to its caller)
InspectOutcomes == {"ok", "NoSuchProcess", "AccessDenied", "OSError"}

\* self.processes.get(service_name): the pid, 0 when the key is absent
dict_get(d, s) ==
    IF s \in dict_keys(d) THEN (CHOOSE e \in Range(d) : e.name = s).pid ELSE 0

\* a mutant: the handle another invocation holds counts as well
status_running_any_manager(s) ==
    \/ dict_get(processes, s) # 0 /\ procs[dict_get(processes, s)] = "running"
    \/ dict_get(other_processes, s) # 0 /\ procs[dict_get(other_processes, s)] = "running"

\* process and process.poll() is None
status_running(s) == dict_get(processes, s) # 0 /\ procs[dict_get(processes, s)] = "running"

\* one row of the table
Row(status, pid, uptime, memory) ==
    [status |-> status, pid |-> pid, uptime |-> uptime, memory |-> memory]

\* the row get_service_status adds for service s: Running with the figures,
\* Unknown with the pid when psutil raised NoSuchProcess or AccessDenied,
\* Stopped when there is no handle or the process has exited
status_row(s, outcome) ==
    IF status_running(s)
    THEN IF outcome = "ok"
         THEN Row("Running", dict_get(processes, s), "known", "known")
         ELSE Row("Unknown", dict_get(processes, s), "N/A", "N/A")
    ELSE Row("Stopped", "N/A", "N/A", "N/A")

\* whether the round for service s raises out of get_service_status: the
\* except clause names psutil.NoSuchProcess and psutil.AccessDenied only
status_raises(s, outcome) ==
    status_running(s) /\ outcome \notin {"ok", "NoSuchProcess", "AccessDenied"}

\* the services whose row is in the table: all of them, or those before the
\* round that raised
status_reported(inspect) ==
    {StatusOrder[i] : i \in {k \in DOMAIN StatusOrder :
        \A j \in 1..k : ~status_raises(StatusOrder[j], inspect[StatusOrder[j]])}}

Report(n, raised, rows, states, failed) ==
    [n |-> n, raised |-> raised, rows |-> rows, states |-> states, failed |-> failed]

NoReport == Report(0, FALSE, << >>, << >>, {})

\* get_service_status, called while no other operation of the manager runs;
\* inspect[s] is what psutil does for service s (read only for a running one)
get_service_status(inspect) ==
    /\ pc = "idle"
    /\ \A s \in Services : ~status_running(s) => inspect[s] = "ok"
    /\ report' = Report(1,
                        \E s \in Services : status_raises(s, inspect[s]),
                        [s \in status_reported(inspect) |-> status_row(s, inspect[s])],
                        svc_state,
                        {s \in Services : inspect[s] # "ok"})
    /\ UNCHANGED other_processes
    /\ UNCHANGED <<wfVars, resVars, svcVars, now>>

\* another invocation of main.py starts service s: its Popen puts a process
\* into the machine's process table and its own ServiceManager registers the
\* handle; nothing of this invocation's ServiceManager is written
other_start(s) ==
    /\ s \notin dict_keys(other_processes)
    /\ procs' = Append(procs, "running")
    /\ other_processes' = dict_set(other_processes, s, Len(procs) + 1)
    /\ UNCHANGED <<processes, start_times, pc, service_name, attempt, timeout, elapsed,
                   probe_ret, last_response, todo, svc_state, ret, opinfo, probe_calls,
                   os_name, cl, visits>>
    /\ UNCHANGED report
    /\ UNCHANGED <<wfVars, resVars, mainVars, launcherVars, stepVars, chatVars, now>>

(***************************************************************************)
(* main() of src/main.py: one run of the launcher                          *)
(***************************************************************************)
\* sys.argv[1].lower(); "missing" stands for a command line without a command
Commands == {"backend", "webui", "ui", "suite", "status", "unknown", "missing"}

\* the start operations a command calls, in the order main calls them
start_list(c) ==
    CASE c = "backend" -> <<"backend">>
      [] c = "webui" -> <<"webui">>
      [] c = "ui" -> <<"ui">>
      [] c = "suite" -> <<"backend", "webui", "ui">>
      [] OTHER -> <<>>

\* await asyncio.sleep(3) after a start operation of the suite that returned True
SettleDelay == 3

\* the suite sleeps after start_backend and after start_webui, not after start_workflow_ui
settles_after(s) == s \in {"backend", "webui"}

\* main up to the dispatch on the command: a missing command and a failed
\* environment check exit with status 1 before the try block is entered
main_begin(c, env_ok) ==
    /\ mpc = "start"
    /\ command' = c
    /\ IF c = "missing" \/ ~env_ok
       THEN /\ exit_code' = 1
            /\ mpc' = "exited"
            /\ UNCHANGED remaining
       ELSE IF c = "unknown"
       THEN /\ exit_code' = 1           \* sys.exit(1) inside the try block
            /\ mpc' = "finally"
            /\ UNCHANGED remaining
       ELSE IF c = "status"
       THEN /\ mpc' = "status"
            /\ UNCHANGED <<exit_code, remaining>>
       ELSE /\ mpc' = "call"
            /\ remaining' = start_list(c)
            /\ UNCHANGED exit_code
    /\ UNCHANGED <<services_started, interrupted, settled>>
    /\ UNCHANGED <<wfVars, resVars, svcVars, now>>

\* the status command: console.print(manager.get_service_status()), then the
\* system information, then the finally clause
main_status(inspect) ==
    /\ mpc = "status"
    /\ get_service_status(inspect)
    /\ mpc' = "finally"
    /\ UNCHANGED <<command, remaining, services_started, exit_code, interrupted, settled>>

\* main calls the next start operation
main_call(pre_ok) ==
    /\ mpc = "call"
    /\ start_enter(Head(remaining), pre_ok)
    /\ mpc' = "await"
    /\ settled' = 0
    /\ UNCHANGED <<command, remaining, services_started, exit_code, interrupted>>

\* where main goes once the start operations are through
after_starts(c, started) ==
    IF c = "suite" /\ started = <<>> THEN "exit1" ELSE "monitor"

\* a mutant: the suite goes on to the next start operation without the sleep
main_return_skips_settle(s, success) ==
    IF command # "suite"
    THEN /\ mpc' = IF success THEN "monitor" ELSE "finally"
         /\ remaining' = Tail(remaining)
         /\ UNCHANGED <<services_started, exit_code>>
    ELSE /\ services_started' = IF success THEN Append(services_started, s)
                                ELSE services_started
         /\ remaining' = Tail(remaining)
         /\ IF Tail(remaining) # <<>>
            THEN mpc' = "call" /\ UNCHANGED exit_code
            ELSE LET started == IF success THEN Append(services_started, s)
                                ELSE services_started
                 IN IF after_starts(command, started) = "exit1"
                    THEN mpc' = "finally" /\ exit_code' = 1
                    ELSE mpc' = "monitor" /\ UNCHANGED exit_code

\* the start operation of service s returned to main. A single-service command
\* waits on the process only when it returned True; the suite appends the
\* service and sleeps only when it returned True, and exits with status 1 when
\* no start operation returned True.
main_return(s, success) ==
    IF command # "suite"
    THEN /\ mpc' = IF success THEN "monitor" ELSE "finally"
         /\ remaining' = Tail(remaining)
         /\ UNCHANGED <<services_started, exit_code>>
    ELSE /\ services_started' = IF success THEN Append(services_started, s)
                                ELSE services_started
         /\ IF success /\ settles_after(s)
            THEN /\ mpc' = "settle"
                 /\ UNCHANGED <<remaining, exit_code>>
            ELSE /\ remaining' = Tail(remaining)
                 /\ IF Tail(remaining) # <<>>
                    THEN mpc' = "call" /\ UNCHANGED exit_code
                    ELSE LET started == IF success THEN Append(services_started, s)
                                        ELSE services_started
                         IN IF after_starts(command, started) = "exit1"
                            THEN mpc' = "finally" /\ exit_code' = 1
                            ELSE mpc' = "monitor" /\ UNCHANGED exit_code

\* control is back in main after a start operation
main_resume ==
    /\ mpc = "await"
    /\ pc = "idle"
    /\ main_return(Head(remaining), ret[Head(remaining)] = "true")
    /\ UNCHANGED <<command, interrupted, settled>>
    /\ UNCHANGED <<wfVars, resVars, svcVars, now>>

\* await asyncio.sleep(3), then on to the next start operation
main_settle ==
    /\ mpc = "settle"
    /\ settled' = settled + SettleDelay
    /\ remaining' = Tail(remaining)
    /\ mpc' = "call"
    /\ UNCHANGED <<command, services_started, exit_code, interrupted>>
    /\ UNCHANGED <<wfVars, resVars, svcVars, now>>

\* the condition of the wait loop: the command's process is registered and
\* running, or for the suite any registered process is
monitor_condition ==
    IF command = "suite"
    THEN \E i \in DOMAIN processes : procs[processes[i].pid] = "running"
    ELSE \E i \in DOMAIN processes :
            processes[i].name = command /\ procs[processes[i].pid] = "running"

\* the wait loop ends when its condition is false
main_monitor_end ==
    /\ mpc = "monitor"
    /\ ~monitor_condition
    /\ mpc' = "finally"
    /\ UNCHANGED <<command, remaining, services_started, exit_code, interrupted, settled>>
    /\ UNCHANGED <<wfVars, resVars, svcVars, now>>

\* a mutant: an interrupt that arrives while a start operation runs is looked
\* at only when the operation has returned
after_interrupt_waits(at) == IF at = "await" THEN "await" ELSE "finally"

\* where main stands after a Ctrl+C that arrived at `at`: the exception (the
\* cancellation of the task) leaves the awaited sleep or start operation, no
\* except clause on the way swallows it, and the finally clause is next
after_interrupt(at) == "finally"

\* Ctrl+C while main is in its try block: whatever runs is abandoned, the frame
\* of wait_for_service with its loop variable is gone, and control goes to the
\* finally clause
main_interrupt ==
    /\ mpc \in {"call", "await", "settle", "monitor"}
    /\ ~interrupted
    /\ interrupted' = TRUE
    /\ mpc' = after_interrupt(mpc)
    /\ IF after_interrupt(mpc) = "finally"
       THEN /\ pc' = "idle"
            /\ attempt' = 0
            /\ elapsed' = 0
            /\ last_response' = "none"
       ELSE UNCHANGED <<pc, attempt, elapsed, last_response>>
    /\ UNCHANGED <<command, remaining, services_started, exit_code, settled>>
    /\ UNCHANGED <<processes, start_times, procs, service_name, todo, svc_state, ret,
                   opinfo, probe_calls, os_name, timeout, probe_ret, cl, visits>>
    /\ UNCHANGED <<wfVars, resVars, now>>

\* finally: manager.cleanup_processes()
main_finally ==
    /\ mpc = "finally"
    /\ cleanup_begin
    /\ IF processes = <<>>
       THEN /\ mpc' = "exited"
            /\ exit_code' = IF exit_code = -1 THEN 0 ELSE exit_code
       ELSE /\ mpc' = "cleanup"
            /\ UNCHANGED exit_code
    /\ UNCHANGED <<command, remaining, services_started, interrupted, settled>>

\* cleanup_processes returned: main ends
main_exit ==
    /\ mpc = "cleanup"
    /\ cleanup_end
    /\ mpc' = "exited"
    /\ exit_code' = IF exit_code = -1 THEN 0 ELSE exit_code
    /\ UNCHANGED <<command, remaining, services_started, interrupted, settled>>

(***************************************************************************)
(* IntegratedLauncher (src/launch-integrated-suite.py): one run            *)
(***************************************************************************)
\* wait_for_service(self, url, timeout=30)
LauncherProbeTimeout == 30

\* urllib.request.urlopen(url, timeout=1)
LauncherAttemptTimeout == 1

\* process.wait(timeout=5) in cleanup
LauncherGracePeriod == 5

\* what one urlopen meets: a response it returns ("ok"), an error status
\* (HTTPError), a refused connection (URLError), or no answer until its timeout
LauncherResponses == {"ok", "error_status", "refused", "hang"}

l_probeVars == <<l_attempt, l_timeout, l_elapsed, l_probe_ret, l_last_response>>

l_cleanupVars == <<l_todo, l_cl, l_visits, l_cont>>

\* subprocess.Popen([...], cwd=...): no preexec_fn and no creationflags, so the
\* child stays in the launcher's process group
l_spawn ==
    /\ l_procs' = Append(l_procs, "running")
    /\ l_groups' = Append(l_groups, "inherited")
    /\ UNCHANGED l_processes

\* where run() goes once a start function has appended its process: after
\* start_workflow_backend on to start_webui, after start_webui into
\* wait_for_service
after_append(at) == IF at = "backend_append" THEN "webui" ELSE "probe"

\* run() up to the start of the services: a failed prerequisite, clone or
\* set-up step returns 1 (through the finally clause)
l_run(launch_workflow, setup_ok) ==
    /\ lpc = "start"
    /\ IF ~setup_ok
       THEN lpc' = "finally" /\ l_ret' = 1
       ELSE /\ lpc' = IF launch_workflow THEN "backend" ELSE "webui"
            /\ UNCHANGED l_ret
    /\ UNCHANGED <<l_processes, l_procs, l_groups, l_probeVars, l_cleanupVars>>
    /\ UNCHANGED <<wfVars, resVars, svcVars, mainVars, statusVars, stepVars, chatVars, now>>

\* start_workflow_backend up to the return of subprocess.Popen: skipped when
\* the directory is missing; a Popen that raises is reported and run() goes
\* on; otherwise the child runs and self.processes.append(process) is next
l_start_workflow_backend(dir_exists, popen_ok) ==
    /\ lpc = "backend"
    /\ IF dir_exists /\ popen_ok
       THEN l_spawn /\ lpc' = "backend_append"
       ELSE UNCHANGED <<l_processes, l_procs, l_groups>> /\ lpc' = "webui"
    /\ UNCHANGED <<l_ret, l_probeVars, l_cleanupVars>>
    /\ UNCHANGED <<wfVars, resVars, svcVars, mainVars, statusVars, stepVars, chatVars, now>>

\* start_webui up to the return of subprocess.Popen, and run()'s
\* `if not webui_process: return 1` for a Popen that raised
l_start_webui(popen_ok) ==
    /\ lpc = "webui"
    /\ IF popen_ok
       THEN /\ l_spawn
            /\ lpc' = "webui_append"
            /\ UNCHANGED l_ret
       ELSE /\ lpc' = "finally"
            /\ l_ret' = 1
            /\ UNCHANGED <<l_processes, l_procs, l_groups>>
    /\ UNCHANGED <<l_probeVars, l_cleanupVars>>
    /\ UNCHANGED <<wfVars, resVars, svcVars, mainVars, statusVars, stepVars, chatVars, now>>

\* self.processes.append(process) of the start function that spawned the
\* child; after start_webui run() calls wait_for_service(webui_url)
l_append ==
    /\ lpc \in {"backend_append", "webui_append"}
    /\ l_processes' = Append(l_processes, Len(l_procs))
    /\ lpc' = after_append(lpc)
    /\ IF after_append(lpc) = "probe"
       THEN /\ l_attempt' = 0
            /\ l_timeout' = LauncherProbeTimeout
            /\ l_elapsed' = 0
            /\ l_probe_ret' = "none"
            /\ l_last_response' = "none"
       ELSE UNCHANGED l_probeVars
    /\ UNCHANGED <<l_procs, l_groups, l_ret, l_cleanupVars>>
    /\ UNCHANGED <<wfVars, resVars, svcVars, mainVars, statusVars, stepVars, chatVars, now>>

\* wait_for_service(url, t) called on its own
l_wait_for_service(t) ==
    /\ lpc = "start"
    /\ l_probe_ret = "none"
    /\ l_timeout' = t
    /\ l_attempt' = 0
    /\ l_elapsed' = 0
    /\ l_last_response' = "none"
    /\ IF t = 0
       THEN l_probe_ret' = "false" /\ UNCHANGED lpc
       ELSE lpc' = "probe" /\ UNCHANGED l_probe_ret
    /\ UNCHANGED <<l_processes, l_procs, l_groups, l_ret, l_cleanupVars>>
    /\ UNCHANGED <<wfVars, resVars, svcVars, mainVars, statusVars, stepVars, chatVars, now>>

\* where control goes when wait_for_service returns: back into run(), whose
\* wait loop follows whatever the probe returned, or to the caller
l_after_probe == IF l_processes = <<>> THEN "start" ELSE "wait"

\* the seconds one urlopen takes
l_attempt_seconds(response) == IF response = "hang" THEN LauncherAttemptTimeout ELSE 0

\* wait_for_service: one round of the loop. urlopen returning is success; a
\* URLError or OSError is caught, time.sleep(1) follows, and the loop goes on
\* until range(timeout) is used up
l_probe_round(response) ==
    /\ lpc = "probe"
    /\ l_last_response' = response
    /\ IF response = "ok"
       THEN /\ l_probe_ret' = "true"
            /\ l_elapsed' = l_elapsed
            /\ lpc' = l_after_probe
            /\ UNCHANGED l_attempt
       ELSE /\ l_attempt' = l_attempt + 1
            /\ l_elapsed' = l_elapsed + l_attempt_seconds(response) + PollInterval
            /\ IF l_attempt + 1 < l_timeout
               THEN UNCHANGED <<lpc, l_probe_ret>>
               ELSE l_probe_ret' = "false" /\ lpc' = l_after_probe
    /\ UNCHANGED <<l_processes, l_procs, l_groups, l_ret, l_timeout, l_cleanupVars>>
    /\ UNCHANGED <<wfVars, resVars, svcVars, mainVars, statusVars, stepVars, chatVars, now>>

\* the wait loop of run() ends when the web-ui process has exited: return 0
l_wait_end ==
    /\ lpc = "wait"
    /\ l_procs[l_processes[Len(l_processes)]] # "running"
    /\ lpc' = "finally"
    /\ l_ret' = 0
    /\ UNCHANGED <<l_processes, l_procs, l_groups, l_probeVars, l_cleanupVars>>
    /\ UNCHANGED <<wfVars, resVars, svcVars, mainVars, statusVars, stepVars, chatVars, now>>

\* a child process ends by itself
l_child_exit(pid) ==
    /\ lpc \notin {"start", "done"}
    /\ l_procs[pid] = "running"
    /\ l_procs' = [l_procs EXCEPT ![pid] = "exited"]
    /\ UNCHANGED <<lpc, l_processes, l_groups, l_ret, l_probeVars, l_cleanupVars>>
    /\ UNCHANGED <<wfVars, resVars, svcVars, mainVars, statusVars, stepVars, chatVars, now>>

\* what cleanup found at its entry
l_entry_state(d, ps) ==
    IF d = <<>> THEN "empty"
    ELSE IF \A i \in DOMAIN d : ps[d[i]] = "exited" THEN "all_exited"
    ELSE "some_running"

\* cleanup(), entry
l_cleanup_enter(caller) ==
    /\ l_cont' = caller
    /\ l_todo' = l_processes
    /\ l_cl' = [pre |-> l_entry_state(l_processes, l_procs), errors |-> {},
                again |-> l_cl.pre # "none", at |-> lpc]
    /\ l_visits' = <<>>
    /\ lpc' = "cleanup"

\* SIGINT or SIGTERM reaches the launcher while run() is in its try block:
\* the interpreter runs signal_handler between two instructions of the main
\* thread, also between the return of Popen and the append of its process;
\* signal_handler calls launcher.cleanup() and then sys.exit(0)
l_signal_handler ==
    /\ lpc \in {"backend", "backend_append", "webui", "webui_append", "probe", "wait"}
    /\ l_cleanup_enter("handler")
    /\ UNCHANGED <<l_processes, l_procs, l_groups, l_ret, l_probeVars>>
    /\ UNCHANGED <<wfVars, resVars, svcVars, mainVars, statusVars, stepVars, chatVars, now>>

\* finally: self.cleanup()
l_finally ==
    /\ lpc = "finally"
    /\ l_cleanup_enter("finally")
    /\ UNCHANGED <<l_processes, l_procs, l_groups, l_ret, l_probeVars>>
    /\ UNCHANGED <<wfVars, resVars, svcVars, mainVars, statusVars, stepVars, chatVars, now>>

\* whether process.poll() is None: a process that was sent SIGKILL and not
\* waited for may or may not be seen as exited yet
l_poll_is_none(state, polled_dead) ==
    state = "running" \/ (state = "killed" /\ ~polled_dead)

\* cleanup(), one round of the loop: process.terminate() and wait(timeout=5);
\* on TimeoutExpired process.kill(), with no wait; another exception is printed
l_cleanup_visit(raises, exit_after, polled_dead) ==
    /\ lpc = "cleanup"
    /\ l_todo # <<>>
    /\ LET pid == Head(l_todo)
           state == l_procs[pid]
       IN /\ state # "killed" => polled_dead
          /\ IF ~l_poll_is_none(state, polled_dead)
             THEN /\ raises = "none"
                  /\ exit_after = 0
                  /\ l_procs' = [l_procs EXCEPT ![pid] = "exited"]
                  /\ l_visits' = Append(l_visits,
                                    Visit("", pid, FALSE, <<>>, 0, FALSE, FALSE))
                  /\ UNCHANGED l_cl
             ELSE IF raises = "term"
             THEN /\ exit_after = 0
                  /\ l_cl' = [l_cl EXCEPT !.errors = @ \cup {pid}]
                  /\ l_visits' = Append(l_visits,
                                    Visit("", pid, TRUE, <<>>, 0, FALSE, TRUE))
                  /\ UNCHANGED l_procs
             ELSE /\ raises = "none"
                  /\ state = "killed" => exit_after = 0
                  /\ IF exit_after <= LauncherGracePeriod
                     THEN /\ l_procs' = [l_procs EXCEPT ![pid] = "exited"]
                          /\ l_visits' = Append(l_visits,
                                Visit("", pid, TRUE, <<Signal("SIGTERM", "pid")>>,
                                      exit_after, FALSE, FALSE))
                     ELSE /\ l_procs' = [l_procs EXCEPT ![pid] = "killed"]
                          /\ l_visits' = Append(l_visits,
                                Visit("", pid, TRUE,
                                      <<Signal("SIGTERM", "pid"), Signal("SIGKILL", "pid")>>,
                                      LauncherGracePeriod, TRUE, FALSE))
                  /\ UNCHANGED l_cl
    /\ l_todo' = Tail(l_todo)
    /\ UNCHANGED <<lpc, l_processes, l_groups, l_cont, l_ret, l_probeVars>>
    /\ UNCHANGED <<wfVars, resVars, svcVars, mainVars, statusVars, stepVars, chatVars, now>>

\* cleanup() returns: the handler goes on to sys.exit(0), which unwinds run()
\* through its finally clause; after the finally clause the program ends
l_cleanup_return ==
    /\ lpc = "cleanup"
    /\ l_todo = <<>>
    /\ IF l_cont = "handler"
       THEN lpc' = "finally" /\ l_ret' = 0
       ELSE lpc' = "done" /\ UNCHANGED l_ret
    /\ UNCHANGED <<l_processes, l_procs, l_groups, l_probeVars, l_cleanupVars>>
    /\ UNCHANGED <<wfVars, resVars, svcVars, mainVars, statusVars, stepVars, chatVars, now>>

(***************************************************************************)
(* ChatService (src/workflows/backend/chat_service.py). Its coroutines run *)
(* on one event loop: a coroutine runs without interruption from one await *)
(* that suspends to the next. process_user_message suspends only in        *)
(* await agent.run(); cancel_session has no await in its body.             *)
(***************************************************************************)
\* sessions created per ChatService
MaxSessions == 2
\* process_user_message calls per ChatService
MaxChatCalls == 2

\* what keeps process_user_message from starting the agent: nothing, a
\* provider that is not in llm_providers, a missing API key (the ValueError of
\* the _create_*_llm functions), an exception raised by Agent(...)
Failures == {"none", "unsupported_provider", "missing_api_key", "agent_init"}

\* how await agent.run() ends: with a result, or with an exception
RunOutcomes == {"result", "exception"}

\* ChatSession(id, messages=[], ...): status defaults to "active"
ChatSession(status, messages) == [status |-> status, messages |-> messages]

\* a process_user_message call: state is "awaiting" while it is suspended in
\* agent.run(), then "returned" or "raised"; reply is the message it returned
Call(session_id, state, existed, reply) ==
    [session_id |-> session_id, state |-> state, existed |-> existed, reply |-> reply]

NoChatHist ==
    [cancelled |-> {}, deleted_active |-> {}, cancel_ran |-> {},
     op |-> "none", session_id |-> 0, ret |-> FALSE]

\* dict.pop(key, None)
pop(d, key) == [k \in DOMAIN d \ {key} |-> d[k]]

\* d[key] = value
put(d, key, value) == [k \in DOMAIN d \cup {key} |-> IF k = key THEN value ELSE d[k]]

\* add_message on a session that exists: the message is appended
add_message(ss, session_id, kind) ==
    [ss EXCEPT ![session_id].messages = Append(@, kind)]

\* ChatService.create_session
create_session ==
    /\ created < MaxSessions
    /\ created' = created + 1
    /\ sessions' = put(sessions, created + 1, ChatSession("active", <<>>))
    /\ UNCHANGED <<active_agents, chat_calls, scheduled, chat_hist>>

\* the except clause of process_user_message: the agent is popped, then
\* add_message stores the error reply and the status becomes "error";
\* add_message raises ValueError when the session is gone, and that error
\* leaves process_user_message
handle_exception(i, session_id, ss) ==
    /\ active_agents' = pop(active_agents, session_id)
    /\ IF session_id \in DOMAIN ss
       THEN /\ sessions' = [add_message(ss, session_id, "assistant_error")
                               EXCEPT ![session_id].status = "error"]
            /\ chat_calls' = [k \in DOMAIN chat_calls \cup {i} |->
                                 IF k = i THEN Call(session_id, "returned", TRUE, "error")
                                 ELSE chat_calls[k]]
       ELSE /\ sessions' = ss
            /\ chat_calls' = [k \in DOMAIN chat_calls \cup {i} |->
                                 IF k = i THEN Call(session_id, "raised", TRUE, "none")
                                 ELSE chat_calls[k]]

\* process_user_message up to await agent.run(): ValueError for a session
\* that does not exist; otherwise the user message is added and, unless
\* something fails inside the try block, the agent is registered
process_user_message(session_id, failure) ==
    /\ Len(chat_calls) < MaxChatCalls
    /\ LET i == Len(chat_calls) + 1 IN
       IF session_id \notin DOMAIN sessions
       THEN /\ chat_calls' = Append(chat_calls, Call(session_id, "raised", FALSE, "none"))
            /\ UNCHANGED <<sessions, active_agents>>
       ELSE IF failure # "none"
       THEN handle_exception(i, session_id, add_message(sessions, session_id, "user"))
       ELSE /\ sessions' = add_message(sessions, session_id, "user")
            /\ active_agents' = put(active_agents, session_id, i)
            /\ chat_calls' = Append(chat_calls, Call(session_id, "awaiting", TRUE, "none"))
    /\ chat_hist' = [chat_hist EXCEPT !.cancelled = @ \ {session_id}]
    /\ UNCHANGED <<scheduled, created>>

\* process_user_message from the end of await agent.run(): with a result the
\* agent is popped, the assistant message added and the status set to
\* "completed"; an exception of agent.run(), or the ValueError of add_message
\* for a session that is gone, goes to the except clause
agent_run_ends(i, outcome) ==
    /\ chat_calls[i].state = "awaiting"
    /\ LET session_id == chat_calls[i].session_id IN
       IF outcome = "result" /\ session_id \in DOMAIN sessions
       THEN /\ active_agents' = pop(active_agents, session_id)
            /\ sessions' = [add_message(sessions, session_id, "assistant")
                               EXCEPT ![session_id].status = "completed"]
            /\ chat_calls' = [chat_calls EXCEPT
                                 ![i] = Call(session_id, "returned", TRUE, "assistant")]
       ELSE handle_exception(i, session_id, sessions)
    /\ UNCHANGED <<scheduled, created, chat_hist>>

\* the body of cancel_session: False for a session that does not exist;
\* otherwise the agent's reference is popped, the status becomes "cancelled",
\* and True is returned
cancel_body(op, session_id) ==
    IF session_id \notin DOMAIN sessions
    THEN /\ UNCHANGED <<sessions, active_agents>>
         /\ chat_hist' = [chat_hist EXCEPT
                             !.op = op, !.session_id = session_id, !.ret = FALSE,
                             !.cancel_ran = IF op = "scheduled" THEN @ \cup {session_id} ELSE @]
    ELSE /\ active_agents' = pop(active_agents, session_id)
         /\ sessions' = [sessions EXCEPT ![session_id].status = "cancelled"]
         /\ chat_hist' = [chat_hist EXCEPT
                             !.op = op, !.session_id = session_id, !.ret = TRUE,
                             !.cancelled = @ \cup {session_id},
                             !.cancel_ran = IF op = "scheduled" THEN @ \cup {session_id} ELSE @]

\* await cancel_session(session_id), as the router calls it
cancel_session(session_id) ==
    /\ cancel_body("cancel_session", session_id)
    /\ UNCHANGED <<chat_calls, scheduled, created>>

\* the event loop runs a cancel_session that delete_session scheduled
scheduled_cancel(session_id) ==
    /\ session_id \in scheduled
    /\ scheduled' = scheduled \ {session_id}
    /\ cancel_body("scheduled", session_id)
    /\ UNCHANGED <<chat_calls, created>>

\* delete_session: False for a session that does not exist; otherwise
\* cancel_session is handed to asyncio.create_task, which runs it later, and
\* the session is deleted at once
delete_session(session_id) ==
    /\ IF session_id \notin DOMAIN sessions
       THEN UNCHANGED <<sessions, scheduled, chat_hist>>
       ELSE /\ scheduled' = scheduled \cup {session_id}
            /\ sessions' = pop(sessions, session_id)
            /\ chat_hist' = [chat_hist EXCEPT
                                !.op = "delete_session", !.session_id = session_id,
                                !.ret = TRUE,
                                !.deleted_active =
                                    IF session_id \in DOMAIN active_agents
                                    THEN @ \cup {session_id} ELSE @]
    /\ UNCHANGED <<active_agents, chat_calls, created>>

(***************************************************************************)
(* Initial state and the specifications                                    *)
(***************************************************************************)
Init ==
    /\ wf = "none"
    /\ steps = <<>>
    /\ execution_count = 0
    /\ success_count = 0
    /\ last_executed_at = -1
    /\ updated_at = 0
    /\ last = Op("none", <<>>, NoStep, "", "ok", {})
    /\ calls = <<<<0, 0>>, 0, 0>>
    /\ result = NoResult
    /\ rlast = ROp("none", FALSE, "ok")
    /\ marks = <<0, 0>>
    /\ processes = <<>>
    /\ start_times = << >>
    /\ procs = <<>>
    /\ pc = "idle"
    /\ service_name = "backend"
    /\ attempt = 0
    /\ timeout = 0
    /\ elapsed = 0
    /\ probe_ret = "none"
    /\ last_response = "none"
    /\ todo = <<>>
    /\ svc_state = [s \in Services |-> "not-started"]
    /\ ret = [s \in Services |-> "none"]
    /\ opinfo = OpInfo(0, "backend", "none")
    /\ probe_calls = [s \in Services |-> 0]
    /\ os_name \in {"posix", "nt"}
    /\ cl = [pre |-> "none", errors |-> {}, again |-> FALSE, at |-> -1]
    /\ visits = <<>>
    /\ command = "none"
    /\ mpc = "start"
    /\ remaining = <<>>
    /\ services_started = <<>>
    /\ exit_code = -1
    /\ interrupted = FALSE
    /\ settled = 0
    /\ lpc = "start"
    /\ l_processes = <<>>
    /\ l_procs = <<>>
    /\ l_groups = <<>>
    /\ l_todo = <<>>
    /\ l_cl = [pre |-> "none", errors |-> {}, again |-> FALSE, at |-> "none"]
    /\ l_visits = <<>>
    /\ l_cont = "finally"
    /\ l_ret = -1
    /\ l_attempt = 0
    /\ l_timeout = 0
    /\ l_elapsed = 0
    /\ l_probe_ret = "none"
    /\ l_last_response = "none"
    /\ report = NoReport
    /\ other_processes = <<>>
    /\ wstep = NoStepBuilt
    /\ sessions = <<>>
    /\ active_agents = <<>>
    /\ chat_calls = <<>>
    /\ scheduled = {}
    /\ created = 0
    /\ chat_hist = NoChatHist
    /\ now = 0

Next ==
    \/ /\ wf = "none" /\ \E v \in CtorInputs : Construct(v, 0, 0)
       /\ UNCHANGED <<mainVars, launcherVars, statusVars, stepVars, chatVars>>
    \/ /\ wf = "built" /\ \E step \in StepInputs : add_step(step)
       /\ UNCHANGED <<mainVars, launcherVars, statusVars, stepVars, chatVars>>
    \/ /\ wf = "built" /\ \E step_id \in Ids : remove_step(step_id)
       /\ UNCHANGED <<mainVars, launcherVars, statusVars, stepVars, chatVars>>

Spec == Init /\ [][Next]_vars

\* add_step calls on a constructed Workflow while the clock moves on
NextAdd ==
    \/ /\ wf = "none" /\ \E v \in CtorInputs : Construct(v, 0, 0)
       /\ UNCHANGED <<mainVars, launcherVars, statusVars, stepVars, chatVars>>
    \/ /\ wf = "built" /\ \E step \in StepInputs : add_step(step)
       /\ UNCHANGED <<mainVars, launcherVars, statusVars, stepVars, chatVars>>
    \/ /\ Tick
       /\ UNCHANGED <<mainVars, launcherVars, statusVars, stepVars, chatVars>>

SpecAdd == Init /\ [][NextAdd]_vars

NextExec ==
    \/ /\ wf = "none" /\ \E e, s \in 0..MaxInitCount : Construct(<<>>, e, s)
       /\ UNCHANGED <<mainVars, launcherVars, statusVars, stepVars, chatVars>>
    \/ /\ \E success \in BOOLEAN : mark_executed(success)
       /\ UNCHANGED <<mainVars, launcherVars, statusVars, stepVars, chatVars>>
    \/ /\ Tick
       /\ UNCHANGED <<mainVars, launcherVars, statusVars, stepVars, chatVars>>

SpecExec == Init /\ [][NextExec]_vars

NextResult ==
    \/ /\ ~result.exists /\
          \E status \in WorkflowStatus, started_at \in DateTimes,
             completed_at \in {None} \cup {Some(d) : d \in DateTimes},
             duration_seconds \in {None} \cup {Some(d) : d \in 0..MaxTime} :
               ConstructResult(status, started_at, completed_at, duration_seconds)
       /\ UNCHANGED <<mainVars, launcherVars, statusVars, stepVars, chatVars>>
    \/ /\ \E success \in BOOLEAN : mark_completed(success)
       /\ UNCHANGED <<mainVars, launcherVars, statusVars, stepVars, chatVars>>
    \/ /\ Tick
       /\ UNCHANGED <<mainVars, launcherVars, statusVars, stepVars, chatVars>>

SpecResult == Init /\ [][NextResult]_vars

\* callers that keep to the code base's own habit of naive UTC datetimes
NaiveDateTimes == {d \in DateTimes : ~d.aware}

NextResultNaive ==
    \/ /\ ~result.exists /\
          \E status \in WorkflowStatus, started_at \in NaiveDateTimes,
             completed_at \in {None} \cup {Some(d) : d \in NaiveDateTimes},
             duration_seconds \in {None} \cup {Some(d) : d \in 0..MaxTime} :
               ConstructResult(status, started_at, completed_at, duration_seconds)
       /\ UNCHANGED <<mainVars, launcherVars, statusVars, stepVars, chatVars>>
    \/ /\ \E success \in BOOLEAN : mark_completed(success)
       /\ UNCHANGED <<mainVars, launcherVars, statusVars, stepVars, chatVars>>
    \/ /\ Tick
       /\ UNCHANGED <<mainVars, launcherVars, statusVars, stepVars, chatVars>>

SpecResultNaive == Init /\ [][NextResultNaive]_vars

NextSvc ==
    \/ /\ opinfo.n < MaxStarts /\ \E s \in Services, pre_ok \in BOOLEAN : start_enter(s, pre_ok)
       /\ UNCHANGED <<mainVars, launcherVars, statusVars, stepVars, chatVars>>
    \/ /\ \E popen_ok \in BOOLEAN : spawn(popen_ok)
       /\ UNCHANGED <<mainVars, launcherVars, statusVars, stepVars, chatVars>>
    \/ /\ \E response \in Responses \ {"hang"} : probe_attempt(response)
       /\ UNCHANGED <<mainVars, launcherVars, statusVars, stepVars, chatVars>>
    \/ /\ probe_sleep
       /\ UNCHANGED <<mainVars, launcherVars, statusVars, stepVars, chatVars>>
    \/ /\ \E pid \in DOMAIN procs : child_exit(pid)
       /\ UNCHANGED <<mainVars, launcherVars, statusVars, stepVars, chatVars>>
    \/ /\ cleanup_begin
       /\ UNCHANGED <<mainVars, launcherVars, statusVars, stepVars, chatVars>>
    \/ /\ \E raises \in Raises, exit_after \in ExitDelays : cleanup_visit(raises, exit_after)
       /\ UNCHANGED <<mainVars, launcherVars, statusVars, stepVars, chatVars>>
    \/ /\ cleanup_end
       /\ UNCHANGED <<mainVars, launcherVars, statusVars, stepVars, chatVars>>

SpecSvc == Init /\ [][NextSvc]_vars

\* the steps of a start operation and of cleanup_processes once they are
\* entered
SvcStep ==
    \/ /\ \E popen_ok \in BOOLEAN : spawn(popen_ok)
       /\ UNCHANGED <<mainVars, launcherVars, statusVars, stepVars, chatVars>>
    \/ /\ \E response \in Responses \ {"hang"} : probe_attempt(response)
       /\ UNCHANGED <<mainVars, launcherVars, statusVars, stepVars, chatVars>>
    \/ /\ probe_sleep
       /\ UNCHANGED <<mainVars, launcherVars, statusVars, stepVars, chatVars>>
    \/ /\ \E raises \in Raises, exit_after \in ExitDelays : cleanup_visit(raises, exit_after)
       /\ UNCHANGED <<mainVars, launcherVars, statusVars, stepVars, chatVars>>
    \/ /\ cleanup_end
       /\ UNCHANGED <<mainVars, launcherVars, statusVars, stepVars, chatVars>>

\* the ServiceManager with an interpreter that goes on running the operation
\* it is in: every step of it is a call that returns within its own timeout
SpecSvcFair == Init /\ [][NextSvc]_vars /\ WF_vars(SvcStep)

NextMain ==
    \/ /\ mpc = "start" /\ \E c \in Commands, env_ok \in BOOLEAN : main_begin(c, env_ok)
       /\ UNCHANGED <<launcherVars, statusVars, stepVars, chatVars>>
    \/ /\ \E inspect \in [Services -> InspectOutcomes] : main_status(inspect)
       /\ UNCHANGED <<launcherVars, stepVars, chatVars>>
    \/ /\ \E pre_ok \in BOOLEAN : main_call(pre_ok)
       /\ UNCHANGED <<launcherVars, statusVars, stepVars, chatVars>>
    \/ /\ mpc = "await" /\ \E popen_ok \in BOOLEAN : spawn(popen_ok)
       /\ UNCHANGED <<mainVars, launcherVars, statusVars, stepVars, chatVars>>
    \/ /\ mpc = "await"
       /\ \E response \in Responses \ {"hang"} : probe_attempt(response)
       /\ UNCHANGED <<mainVars, launcherVars, statusVars, stepVars, chatVars>>
    \/ /\ mpc = "await" /\ probe_sleep
       /\ UNCHANGED <<mainVars, launcherVars, statusVars, stepVars, chatVars>>
    \/ /\ main_resume
       /\ UNCHANGED <<launcherVars, statusVars, stepVars, chatVars>>
    \/ /\ main_settle
       /\ UNCHANGED <<launcherVars, statusVars, stepVars, chatVars>>
    \/ /\ main_monitor_end
       /\ UNCHANGED <<launcherVars, statusVars, stepVars, chatVars>>
    \/ /\ main_interrupt
       /\ UNCHANGED <<launcherVars, statusVars, stepVars, chatVars>>
    \/ /\ main_finally
       /\ UNCHANGED <<launcherVars, statusVars, stepVars, chatVars>>
    \/ /\ mpc = "cleanup"
       /\ \E raises \in Raises, exit_after \in ExitDelays : cleanup_visit(raises, exit_after)
       /\ UNCHANGED <<mainVars, launcherVars, statusVars, stepVars, chatVars>>
    \/ /\ main_exit
       /\ UNCHANGED <<launcherVars, statusVars, stepVars, chatVars>>
    \/ /\ mpc \notin {"start", "exited"}
       /\ \E pid \in DOMAIN procs : child_exit(pid)
       /\ UNCHANGED <<mainVars, launcherVars, statusVars, stepVars, chatVars>>

SpecMain == Init /\ [][NextMain]_vars

NextProbe ==
    \/ /\ \E s \in Services, t \in 0..MaxProbeTimeout : wait_for_service(s, t)
       /\ UNCHANGED <<mainVars, launcherVars, statusVars, stepVars, chatVars>>
    \/ /\ \E response \in Responses : probe_attempt(response)
       /\ UNCHANGED <<mainVars, launcherVars, statusVars, stepVars, chatVars>>
    \/ /\ probe_sleep
       /\ UNCHANGED <<mainVars, launcherVars, statusVars, stepVars, chatVars>>
    \/ \E t \in 0..MaxProbeTimeout : l_wait_for_service(t)
    \/ \E response \in LauncherResponses : l_probe_round(response)

SpecProbe == Init /\ [][NextProbe]_vars

NextLauncher ==
    \/ \E launch_workflow, setup_ok \in BOOLEAN : l_run(launch_workflow, setup_ok)
    \/ \E dir_exists, popen_ok \in BOOLEAN : l_start_workflow_backend(dir_exists, popen_ok)
    \/ \E popen_ok \in BOOLEAN : l_start_webui(popen_ok)
    \/ l_append
    \/ \E response \in LauncherResponses \ {"hang"} : l_probe_round(response)
    \/ l_wait_end
    \/ \E pid \in DOMAIN l_procs : l_child_exit(pid)
    \/ l_signal_handler
    \/ l_finally
    \/ \E raises \in {"none", "term"}, exit_after \in ExitDelays, polled_dead \in BOOLEAN :
          l_cleanup_visit(raises, exit_after, polled_dead)
    \/ l_cleanup_return

SpecLauncher == Init /\ [][NextLauncher]_vars

\* the table get_service_status returned is looked at in the state the call
\* leaves; the next operation of the manager drops it
NextStatus ==
    \/ /\ opinfo.n < MaxStarts /\ \E s \in Services, pre_ok \in BOOLEAN : start_enter(s, pre_ok)
       /\ report' = NoReport /\ UNCHANGED other_processes
       /\ UNCHANGED <<mainVars, launcherVars, stepVars, chatVars>>
    \/ /\ \E popen_ok \in BOOLEAN : spawn(popen_ok)
       /\ report' = NoReport /\ UNCHANGED other_processes
       /\ UNCHANGED <<mainVars, launcherVars, stepVars, chatVars>>
    \/ /\ \E response \in Responses \ {"hang"} : probe_attempt(response)
       /\ report' = NoReport /\ UNCHANGED other_processes
       /\ UNCHANGED <<mainVars, launcherVars, stepVars, chatVars>>
    \/ /\ probe_sleep
       /\ report' = NoReport /\ UNCHANGED other_processes
       /\ UNCHANGED <<mainVars, launcherVars, stepVars, chatVars>>
    \/ /\ \E pid \in DOMAIN procs : child_exit(pid)
       /\ report' = NoReport /\ UNCHANGED other_processes
       /\ UNCHANGED <<mainVars, launcherVars, stepVars, chatVars>>
    \/ /\ \E inspect \in [Services -> InspectOutcomes] : get_service_status(inspect)
       /\ UNCHANGED <<mainVars, launcherVars, stepVars, chatVars>>
    \/ /\ cleanup_begin
       /\ report' = NoReport /\ UNCHANGED other_processes
       /\ UNCHANGED <<mainVars, launcherVars, stepVars, chatVars>>
    \/ /\ \E raises \in Raises, exit_after \in ExitDelays : cleanup_visit(raises, exit_after)
       /\ report' = NoReport /\ UNCHANGED other_processes
       /\ UNCHANGED <<mainVars, launcherVars, stepVars, chatVars>>
    \/ /\ cleanup_end
       /\ report' = NoReport /\ UNCHANGED other_processes
       /\ UNCHANGED <<mainVars, launcherVars, stepVars, chatVars>>

SpecStatus == Init /\ [][NextStatus]_vars

\* one run of "main.py status" while another invocation of main.py starts
\* services and the processes it started run or exit
NextStatusCommand ==
    \/ /\ mpc = "start" /\ \E env_ok \in BOOLEAN : main_begin("status", env_ok)
       /\ UNCHANGED <<launcherVars, statusVars, stepVars, chatVars>>
    \/ /\ \E inspect \in [Services -> InspectOutcomes] : main_status(inspect)
       /\ UNCHANGED <<launcherVars, stepVars, chatVars>>
    \/ /\ main_finally
       /\ UNCHANGED <<launcherVars, statusVars, stepVars, chatVars>>
    \/ \E s \in Services : other_start(s)
    \/ /\ \E pid \in DOMAIN procs : child_exit(pid)
       /\ UNCHANGED <<mainVars, launcherVars, statusVars, stepVars, chatVars>>

SpecStatusCommand == Init /\ [][NextStatusCommand]_vars

NextStep ==
    /\ wstep.n = 0
    /\ \E step_type \in StepTypes, c \in ConfigCases : ConstructStep(step_type, c)
    /\ UNCHANGED <<mainVars, launcherVars, statusVars, chatVars>>

SpecStep == Init /\ [][NextStep]_vars

\* the ChatService under the requests the router forwards to it
NextChat ==
    \/ /\ create_session
       /\ UNCHANGED <<wfVars, resVars, svcVars, mainVars, launcherVars, statusVars, stepVars, now>>
    \/ /\ \E session_id \in 1..created, failure \in Failures :
             process_user_message(session_id, failure)
       /\ UNCHANGED <<wfVars, resVars, svcVars, mainVars, launcherVars, statusVars, stepVars, now>>
    \/ /\ \E i \in DOMAIN chat_calls, outcome \in RunOutcomes : agent_run_ends(i, outcome)
       /\ UNCHANGED <<wfVars, resVars, svcVars, mainVars, launcherVars, statusVars, stepVars, now>>
    \/ /\ \E session_id \in 1..created : cancel_session(session_id)
       /\ UNCHANGED <<wfVars, resVars, svcVars, mainVars, launcherVars, statusVars, stepVars, now>>
    \/ /\ \E session_id \in scheduled : scheduled_cancel(session_id)
       /\ UNCHANGED <<wfVars, resVars, svcVars, mainVars, launcherVars, statusVars, stepVars, now>>
    \/ /\ \E session_id \in 1..created : delete_session(session_id)
       /\ UNCHANGED <<wfVars, resVars, svcVars, mainVars, launcherVars, statusVars, stepVars, now>>

SpecChat == Init /\ [][NextChat]_vars

\* one run of either launcher: main() of src/main.py or IntegratedLauncher.run()
NextShutdown ==
    \/ lpc = "start" /\ NextMain
    \/ mpc = "start" /\ NextLauncher

\* the steps main takes from its finally clause to its end
MainShutdownStep ==
    \/ /\ main_finally
       /\ UNCHANGED <<launcherVars, statusVars, stepVars, chatVars>>
    \/ /\ mpc = "cleanup"
       /\ \E raises \in Raises, exit_after \in ExitDelays : cleanup_visit(raises, exit_after)
       /\ UNCHANGED <<mainVars, launcherVars, statusVars, stepVars, chatVars>>
    \/ /\ main_exit
       /\ UNCHANGED <<launcherVars, statusVars, stepVars, chatVars>>

\* the steps the IntegratedLauncher takes in cleanup() and from its finally
\* clause to its end
LauncherShutdownStep ==
    \/ l_finally
    \/ \E raises \in {"none", "term"}, exit_after \in ExitDelays, polled_dead \in BOOLEAN :
          l_cleanup_visit(raises, exit_after, polled_dead)
    \/ l_cleanup_return

\* the interpreter goes on running the finally clause and the clean-up loop:
\* each of their steps is a bounded wait (process.wait(timeout=5), a
\* subprocess.run with timeout=10) or does not wait at all
SpecShutdown ==
    /\ Init
    /\ [][NextShutdown]_vars
    /\ WF_vars(MainShutdownStep)
    /\ WF_vars(LauncherShutdownStep)

(***************************************************************************)
(* Claims about the Workflow step collection (checked under Spec)          *)
(***************************************************************************)
\* the step, as add_step would store it, repeats the id or the order of a step of cur
duplicates(step, cur) ==
    \E i \in DOMAIN cur :
        \/ cur[i].id = step.id
        \/ cur[i].order = assigned_order(step, cur)

\* C1: an add_step of a step whose identifier or order repeats that of a step
\* already in the workflow fails with a validation error and leaves the step
\* collection as it was before the call.
C1_DuplicateAddRejected ==
    [][(last'.op = "add_step" /\ duplicates(last'.step, steps))
          => (last'.res # "ok" /\ steps' = steps)]_vars

\* C2: after add_step calls, get_steps_by_order() is strictly ascending by
\* order: no two of the returned steps have the same order.
C2_StrictlyAscending ==
    last.op = "add_step" =>
        \A i, j \in DOMAIN get_steps_by_order :
            i < j => get_steps_by_order[i].order < get_steps_by_order[j].order

\* C3: in every state of a constructed Workflow, every identifier in every
\* step's depends_on is the identifier of a step of the workflow.
C3_DependenciesResolve ==
    wf = "built" =>
        \A i \in DOMAIN steps : Range(steps[i].depends_on) \subseteq step_ids(steps)

\* two steps of v, with different identifiers, that depend on each other
has_mutual_pair(v) ==
    \E i, j \in DOMAIN v :
        /\ v[i].id # v[j].id
        /\ v[j].id \in Range(v[i].depends_on)
        /\ v[i].id \in Range(v[j].depends_on)

all_resolve(v) == \A i \in DOMAIN v : Range(v[i].depends_on) \subseteq step_ids(v)

\* C4 (as stated): a step collection holding two steps that depend on each
\* other is rejected with the circular-dependency error, whatever else it holds.
C4_MutualPairCircularError ==
    (last.op = "construct" /\ has_mutual_pair(last.v))
        => last.res = "circular_dependency"

\* C4 (amended): a step collection holding two steps that depend on each other
\* is always rejected; the error is the circular-dependency error when the
\* identifiers are unique, the orders are unique and every depends_on resolves.
C4_MutualPairRejected ==
    (last.op = "construct" /\ has_mutual_pair(last.v))
        => /\ last.res # "ok"
           /\ wf = "rejected"
           /\ (/\ Cardinality(step_ids(last.v)) = Len(last.v)
               /\ Cardinality(orders(last.v)) = Len(last.v)
               /\ all_resolve(last.v))
                  => last.res = "circular_dependency"

\* C4 witness: a three-step collection with a mutual pair was rejected as circular
C4_Witness ==
    /\ last.op = "construct"
    /\ Len(last.v) = 3
    /\ has_mutual_pair(last.v)
    /\ last.res = "circular_dependency"

\* C5: remove_step(id) returns true iff a step with that id was present; then
\* no step with that id is left, no remaining step depends on id, and every
\* other step is kept, in place, with its order and its other dependencies;
\* when it returns false nothing changes.
C5_RemoveStepCascades ==
    [][last'.op = "remove_step" =>
          LET id == last'.id
              others == SelectSeq(steps, LAMBDA s : s.id # id)
          IN /\ (last'.res = "true") <=> (id \in step_ids(steps))
             /\ last'.res \in {"true", "false"}
             /\ last'.res = "false" => steps' = steps
             /\ last'.res = "true" =>
                   /\ id \notin step_ids(steps')
                   /\ Len(steps') = Len(others)
                   /\ \A k \in DOMAIN others :
                         /\ steps'[k].id = others[k].id
                         /\ steps'[k].order = others[k].order
                         /\ Range(steps'[k].depends_on)
                               = Range(others[k].depends_on) \ {id}]_vars

\* C5 witness: a step was removed, and a step that depended on it and on
\* another step is left with the other dependency
C5_Witness ==
    /\ last.op = "remove_step"
    /\ last.res = "true"
    /\ \E k \in DOMAIN steps :
          /\ steps[k].id \in last.aux
          /\ steps[k].depends_on # <<>>

(***************************************************************************)
(* Claims about the execution counters (checked under SpecExec)            *)
(***************************************************************************)
\* the workflow was constructed with the default counters
fresh == wf = "built" /\ calls[1] = <<0, 0>>

\* C6: on a fresh workflow, execution_count is the number of mark_executed
\* calls and success_count the number of calls with success=True; N calls with
\* success=True give success_rate 1.0, and no execution gives success_rate 0.
C6_CountersCountCalls ==
    fresh =>
        /\ execution_count = calls[2]
        /\ success_count = calls[3]
        /\ calls[2] = 0 => rate_equals(success_rate, 0)
        /\ (calls[2] > 0 /\ calls[3] = calls[2]) => rate_equals(success_rate, 1)

\* C6 witness: three calls, all with success=True, on a fresh workflow
C6_Witness ==
    /\ fresh
    /\ calls[2] = 3
    /\ calls[3] = 3
    /\ rate_equals(success_rate, 1)


(***************************************************************************)
(* Claims about WorkflowResult (C7 checked under SpecResult, C8 and C9     *)
(* under SpecResultNaive)                                                  *)
(***************************************************************************)
\* C7: after mark_completed(success) the status is completed when success is
\* true and failed when it is false, completed_at is set, and duration_seconds
\* is completed_at minus started_at.
C7_MarkCompletedPostcondition ==
    rlast.op = "mark_completed" =>
        /\ rlast.raised = "ok"
        /\ result.status = (IF rlast.success THEN "completed" ELSE "failed")
        /\ result.completed_at # None
        /\ result.duration_seconds
              = Some(result.completed_at[1].t - result.started_at.t)

\* C8: once a mark_completed call has set the terminal status, the completion
\* time and the duration, no later mark_completed call changes any of them.
C8_FinalizedOnce ==
    [][(marks[2] >= 1 /\ marks'[1] = marks[1] + 1)
          => /\ result'.status = result.status
             /\ result'.completed_at = result.completed_at
             /\ result'.duration_seconds = result.duration_seconds]_vars

\* C9: whenever a WorkflowResult has both started_at and completed_at,
\* duration_seconds is completed_at minus started_at and is not negative.
C9_DurationInvariant ==
    (result.exists /\ result.completed_at # None) =>
        /\ result.duration_seconds
              = Some(result.completed_at[1].t - result.started_at.t)
        /\ result.duration_seconds[1] >= 0

(***************************************************************************)
(* Claims about the ServiceManager (checked under SpecSvc)                 *)
(***************************************************************************)
\* C10: when the spawn of a service's process fails inside a start operation,
\* the service goes from starting to start-failed, the operation returns
\* False, wait_for_service is not invoked for the service and no process
\* handle is registered.
C10_SpawnFailure ==
    [][(pc = "spawn" /\ opinfo'.popen = "raised") =>
          /\ svc_state[service_name] = "starting"
          /\ svc_state'[service_name] = "start-failed"
          /\ ret'[service_name] = "false"
          /\ pc' = "idle"
          /\ probe_calls' = probe_calls
          /\ processes' = processes
          /\ procs' = procs]_vars

\* C10 witness: a start operation ended in a failed spawn, with no handle for
\* its service, while another service runs healthy
C10_Witness ==
    /\ pc = "idle"
    /\ opinfo.popen = "raised"
    /\ svc_state[opinfo.svc] = "start-failed"
    /\ ret[opinfo.svc] = "false"
    /\ opinfo.svc \notin dict_keys(processes)
    /\ \E s \in Services : svc_state[s] = "healthy" /\ s \in dict_keys(processes)

\* C11: when a service's process spawned and its health probe times out, the
\* start operation leaves the process running and registered, the service is
\* degraded-but-running, and the operation returns success to its caller.
C11_ProbeTimeoutReturnsSuccess ==
    [][(pc = "sleep" /\ pc' = "idle") =>
          /\ processes' = processes
          /\ procs' = procs
          /\ service_name \in dict_keys(processes')
          /\ svc_state'[service_name] = "degraded-but-running"
          /\ ret'[service_name] = "true"]_vars

(***************************************************************************)
(* Claims about a run of main() (checked under SpecMain)                   *)
(***************************************************************************)
\* the start operations of the command are through: each spawned its process
\* and saw its health probe time out
degraded_run ==
    /\ start_list(command) # <<>>
    /\ mpc \in {"monitor", "finally", "cleanup", "exited"}
    /\ \A s \in Range(start_list(command)) :
          /\ probe_calls[s] = 1
          /\ ret[s] = "false"

\* C12: a run in which every requested service spawned and none passed its
\* health check does not end with a failure exit status, and while no shutdown
\* was requested it sends no termination signal to those processes.
C12_DegradedIsWarning ==
    (degraded_run /\ ~interrupted) =>
        /\ exit_code # 1
        /\ \A i \in DOMAIN visits : visits[i].sigs = <<>>

\* a step in which main calls a start operation of the suite
suite_call == command = "suite" /\ mpc = "call" /\ mpc' = "await"

\* C20 (as stated): in the suite the services are spawned and health-checked
\* in the order backend, webui, ui, each start operation beginning only when
\* the one before has returned, and between every two consecutive entries the
\* settle delay elapses before the next start operation begins.
C20_SettleBetweenAllEntries ==
    [][suite_call =>
          /\ pc = "idle"
          /\ opinfo'.svc = start_list("suite")[opinfo'.n]
          /\ opinfo.n >= 1 => settled >= SettleDelay]_vars

\* C20 (amended): the order is as stated; the settle delay elapses before the
\* next start operation begins exactly when the start operation before it
\* returned True, and after one that returned False the next begins at once.
C20_SettleAfterSuccessfulStart ==
    [][suite_call =>
          /\ pc = "idle"
          /\ opinfo'.svc = start_list("suite")[opinfo'.n]
          /\ opinfo.n >= 1 =>
                /\ ret[opinfo.svc] \in {"true", "false"}
                /\ ret[opinfo.svc] = "true" => settled = SettleDelay
                /\ ret[opinfo.svc] = "false" => settled = 0]_vars

\* C20 witness: the suite called all three start operations; the second began
\* after a settle delay and the third without one
C20_Witness ==
    /\ command = "suite"
    /\ opinfo.n = 3
    /\ opinfo.svc = "ui"
    /\ ret["backend"] = "true"
    /\ ret["webui"] = "false"
    /\ probe_calls["webui"] = 1
    /\ settled = 0
    /\ mpc = "await"

\* a registered process of the ServiceManager is running
some_process_running ==
    \E i \in DOMAIN processes : procs[processes[i].pid] = "running"

\* C21: in the suite a start operation that failed neither aborts the sequence
\* nor ends the program: once a start operation has returned, whatever it
\* returned, main goes on to the next service of the order, and while no
\* shutdown was requested main does not leave for its final clean-up as long as
\* a process it spawned is running.
C21_FailureDoesNotAbort ==
    [][/\ (command = "suite" /\ mpc = "await" /\ mpc' # "await" /\ ~interrupted'
             /\ Len(remaining) > 1) => mpc' \in {"call", "settle"}
       /\ (command = "suite" /\ mpc = "settle" /\ mpc' # "settle" /\ ~interrupted') =>
             mpc' = "call"
       /\ (command = "suite" /\ mpc # "finally" /\ mpc' = "finally" /\ ~interrupted') =>
             /\ remaining' = <<>>
             /\ ~some_process_running]_vars

\* main is inside the start operation of a suite service that is not the last,
\* whose health probe has been polling for longer than a settle delay
slow_probe_pending ==
    /\ command = "suite"
    /\ mpc = "await"
    /\ pc \in {"probe", "sleep"}
    /\ elapsed > SettleDelay
    /\ Len(remaining) > 1

\* C25: health polling does not serialize behind one slow service: while the
\* probe of one service of the suite is still waiting for readiness, the
\* service after it has been spawned and its probe has been entered, so that it
\* can make progress and complete.
C25_ProbesDoNotSerialize ==
    slow_probe_pending => probe_calls[remaining[2]] >= 1

(***************************************************************************)
(* Claims about cleanup_processes (checked under SpecSvc)                  *)
(***************************************************************************)
\* rounds i and j of a cleanup_processes call, each of which sent a signal
both_signalled(i, j) ==
    /\ visits[i].sigs # <<>>
    /\ visits[j].sigs # <<>>

\* C13: cleanup_processes terminates the services in reverse start order: of
\* two services terminated by the same call, the one started later (the one
\* with the larger pid here, pids being handed out in spawn order) gets its
\* termination first.
C13_ReverseStartOrder ==
    \A i, j \in DOMAIN visits :
        (i < j /\ both_signalled(i, j)) => visits[i].pid > visits[j].pid

graceful_then_forced(v) ==
    IF v.running
    THEN /\ v.waited <= GracePeriod
         /\ v.raised => Len(v.sigs) <= 1
         /\ v.sigs # <<>> => v.sigs[1] = Signal("SIGTERM", "group")
         /\ ~v.raised =>
               /\ v.sigs # <<>>
               /\ Len(v.sigs) <= 2
               /\ (Len(v.sigs) = 2) <=> v.alive
               /\ Len(v.sigs) = 2 => v.sigs[2] = Signal("SIGKILL", "group")
               /\ Len(v.sigs) = 2 => v.waited = GracePeriod
    ELSE v.sigs = <<>> /\ ~v.raised

all_attempts_hung == elapsed = timeout * (AttemptTimeout + PollInterval)

\* every attempt of the IntegratedLauncher's probe hung until its own timeout
l_all_attempts_hung == l_elapsed = l_timeout * (LauncherAttemptTimeout + PollInterval)

\* C19: against an endpoint that never responds, a probe with timeout T and a
\* poll interval of one second returns False no earlier than T seconds and no
\* later than T seconds plus one attempt's own timeout after it was entered.
C19_ProbeDeadline ==
    /\ (probe_ret = "false" /\ timeout >= 1 /\ all_attempts_hung) =>
          /\ elapsed >= timeout
          /\ elapsed <= timeout + AttemptTimeout
    /\ (l_probe_ret = "false" /\ l_timeout >= 1 /\ l_all_attempts_hung) =>
          /\ l_elapsed >= l_timeout
          /\ l_elapsed <= l_timeout + LauncherAttemptTimeout

(***************************************************************************)
(* Claims about shutdown in every launcher (checked under SpecLauncher;    *)
(* the ServiceManager's part of each also under SpecSvc)                   *)
(***************************************************************************)
\* a shutdown call c with the rounds vs, made on an empty set, on a set whose
\* processes have all exited, or again right after a call, sent no signal,
\* raised nothing and reported no error
idempotent_call(c, vs) ==
    (c.pre \in {"empty", "all_exited"} \/ c.again) =>
        /\ c.errors = {}
        /\ \A k \in DOMAIN vs : vs[k].sigs = <<>> /\ ~vs[k].raised

\* C14: shutdown is idempotent: called on an empty service set, on a set whose
\* processes have all exited, or a second time right after a first call (once
\* from the signal handler and once from the finally clause), it sends no
\* signal, raises no error and reports no error.
C14_ShutdownIdempotent ==
    /\ idempotent_call(cl, visits)
    /\ idempotent_call(l_cl, l_visits)

\* every signal of the rounds vs went to a process group
to_group(vs) ==
    \A k \in DOMAIN vs : \A m \in DOMAIN vs[k].sigs : vs[k].sigs[m].target = "group"

\* C17: every managed child is spawned into a process group of its own, and
\* every termination signal, graceful or forced, goes to the process group,
\* never to the single pid, in every launcher.
C17_SignalsGoToGroups ==
    /\ \A pid \in DOMAIN l_groups : l_groups[pid] = "own"
    /\ to_group(l_visits)
    /\ os_name = "posix" => to_group(visits)

(***************************************************************************)
(* Claims about get_service_status (checked under SpecStatus)              *)
(***************************************************************************)
\* get_service_status has just returned its table, nothing having gone wrong
\* while it inspected the processes
report_made == report.n = 1 /\ ~report.raised /\ report.failed = {}

\* C22: with the backend healthy and the ui start-failed, the status report
\* shows two distinct states for them, the ui's being told apart from that of a
\* service never started and of a stopped one, and a following clean-up still
\* terminates the backend.
C22_StatusTellsStartFailed ==
    /\ (report_made /\ report.states["backend"] = "healthy"
           /\ report.states["ui"] = "start-failed") =>
          /\ report.rows["backend"].status = "Running"
          /\ report.rows["ui"].status # report.rows["backend"].status
          /\ \A t \in Services :
                report.states[t] \in {"not-started", "stopped"} =>
                    report.rows[t].status # report.rows["ui"].status
    /\ (svc_state["ui"] = "start-failed" /\ pc = "cleanup" /\ todo = <<>>) =>
          \A k \in DOMAIN visits :
              (visits[k].running /\ ~visits[k].raised) => procs[visits[k].pid] = "exited"

\* C23: get_service_status yields a row for every known service; a service whose
\* inspection failed, for whatever reason, is shown with unknown figures, and
\* the failure does not leave the call.
C23_StatusBestEffort ==
    report.n = 1 =>
        /\ ~report.raised
        /\ DOMAIN report.rows = Services
        /\ \A s \in report.failed :
              /\ report.rows[s].status = "Unknown"
              /\ report.rows[s].uptime = "N/A"
              /\ report.rows[s].memory = "N/A"

(***************************************************************************)
(* Claims about a shutdown request during a start sequence (checked under  *)
(* SpecShutdown)                                                           *)
(***************************************************************************)
\* every process of procs that still runs was met by a clean-up round that raised
stopped_or_reported(ps, vs) ==
    \A pid \in DOMAIN ps :
        ps[pid] = "running" => \E k \in DOMAIN vs : vs[k].pid = pid /\ vs[k].raised

positive_number(v) == v.type \in {"int", "float", "bool"} /\ ~v.nan /\ v.value > 0

\* the configuration c lacks something its step type requires
lacks_required(step_type, c) ==
    CASE step_type = "browser_action" -> ~({"action", "target"} \subseteq c.keys)
      [] step_type = "api_call" -> ~({"url", "method"} \subseteq c.keys)
      [] step_type = "delay" ->
            "duration_seconds" \notin c.keys \/ ~positive_number(c.duration)
      [] OTHER -> FALSE

\* C27: constructing a WorkflowStep fails when its configuration lacks a field
\* its step type requires (browser_action: action and target; api_call: url and
\* method; delay: a positive numeric duration_seconds) and succeeds otherwise,
\* the other step types requiring nothing.
C27_ConfigRequiredFields ==
    wstep.n = 1 => (wstep.error = "ok" <=> ~lacks_required(wstep.step_type, wstep.config))

(***************************************************************************)
(* Claims about one health-probe attempt (checked under SpecProbe)         *)
(***************************************************************************)
\* a response of the success range, as the ServiceManager's requests.get and
\* as the IntegratedLauncher's urlopen (which returns for a 2xx response and
\* raises HTTPError, a URLError, for any other) see it
success_range(response) == response \in {"200", "other_2xx"}

\* C28: a health-probe attempt counts as success exactly when a response with
\* a success-range status code (any 2xx) is received within the per-attempt
\* timeout; any other outcome (another status, a refused connection, no
\* answer within the attempt's timeout) counts as a failed attempt, after
\* which the probe goes on.
C28_AttemptSuccess ==
    [][/\ (pc = "probe" /\ pc' # "probe") =>
            /\ (probe_ret' = "true") <=> success_range(last_response')
            /\ ~success_range(last_response') => pc' = "sleep"
       /\ (lpc = "probe" /\ l_probeVars' # l_probeVars) =>
            (l_probe_ret' = "true") <=> (l_last_response' = "ok")]_vars

has_long_cycle(v) ==
    \E k \in 3..Len(v) :
        \E f \in [1..k -> DOMAIN v] :
            /\ \A m, n \in 1..k : m # n => f[m] # f[n]
            /\ \A n \in 1..k : v[f[(n % k) + 1]].id \in Range(v[f[n]].depends_on)

\* a step of v is among the dependencies of one of its own dependencies (two
\* steps depend on each other, or a step depends on itself)
depends_back(v) ==
    \E i, j \in DOMAIN v :
        /\ v[j].id \in Range(v[i].depends_on)
        /\ v[i].id \in Range(v[j].depends_on)

\* C30: the circular-dependency check is local: a step collection (unique
\* identifiers, unique orders) whose dependencies form a cycle of length
\* three or more with no two steps depending on each other (A depends on B,
\* B on C, C on A) passes validation, and the Workflow is constructed with
\* these steps.
C30_LongCyclePasses ==
    (/\ last.op = "construct"
     /\ has_long_cycle(last.v)
     /\ ~depends_back(last.v)
     /\ Cardinality(step_ids(last.v)) = Len(last.v)
     /\ Cardinality(orders(last.v)) = Len(last.v))
        => /\ last.res = "ok"
           /\ wf = "built"
           /\ steps = last.v

\* C30 witness: the Workflow was constructed from a depending on b, b on c
\* and c on a
C30_Witness ==
    /\ wf = "built"
    /\ last.op = "construct"
    /\ last.res = "ok"
    /\ Len(steps) = 3
    /\ steps = last.v
    /\ steps[1].id = "a" /\ steps[1].depends_on = <<"b">>
    /\ steps[2].id = "b" /\ steps[2].depends_on = <<"c">>
    /\ steps[3].id = "c" /\ steps[3].depends_on = <<"a">>
    /\ has_long_cycle(steps)
    /\ ~has_mutual_pair(steps)

(***************************************************************************)
(* Claims about the ChatService (checked under SpecChat)                   *)
(***************************************************************************)
\* C31: delete_session cancels the session's active agent first: once
\* delete_session(id) has returned True for a session that had an agent
\* registered, and the cancellation it scheduled has run, no agent for id is
\* registered in active_agents.
C31_DeleteCancelsAgent ==
    \A id \in chat_hist.deleted_active \cap chat_hist.cancel_ran :
        id \notin DOMAIN active_agents

\* the process_user_message calls that end in this step: they were suspended
\* in agent.run(), or they were made and ended without suspending
ends_now(i) ==
    /\ chat_calls'[i].state # "awaiting"
    /\ i \in DOMAIN chat_calls => chat_calls[i].state = "awaiting"

\* C36: process_user_message never raises for a session that existed when it
\* was called: every failure (unsupported provider, missing API key, agent
\* error) is turned into an assistant error message, with the session status
\* set to "error" and the agent unregistered, also when delete_session or
\* cancel_session runs while the agent is executing.
C36_NeverRaises ==
    [][\A i \in DOMAIN chat_calls' :
          (ends_now(i) /\ chat_calls'[i].existed) =>
             LET id == chat_calls'[i].session_id IN
             /\ chat_calls'[i].state = "returned"
             /\ chat_calls'[i].reply = "error" =>
                   /\ id \in DOMAIN sessions'
                   /\ sessions'[id].status = "error"
                   /\ sessions'[id].messages # <<>>
                   /\ sessions'[id].messages[Len(sessions'[id].messages)] = "assistant_error"
                   /\ id \notin DOMAIN active_agents']_vars

\* C37: once cancel_session has returned True for a session, the session's
\* status stays "cancelled" for as long as the session exists, also when a
\* process_user_message call for the session was in flight at the time of the
\* cancellation and completes or fails afterwards (checked for the sessions
\* that got no new process_user_message call after the cancellation).
C37_CancelledStays ==
    \A id \in chat_hist.cancelled \cap DOMAIN sessions :
        sessions[id].status = "cancelled"

(***************************************************************************)
(* Claims about the exit paths of the launchers (checked under             *)
(* SpecShutdown)                                                           *)
(***************************************************************************)
\* every process of ps that is not known to have exited was met, while it
\* ran, by a round of the clean-up vs, which issued the termination request
requested_all(ps, vs) ==
    \A pid \in DOMAIN ps :
        ps[pid] # "exited" => \E k \in DOMAIN vs : vs[k].pid = pid /\ vs[k].running

\* C32: on every exit path of a launcher's main routine after at least one
\* child was spawned (the monitored process ended, a later start failed,
\* sys.exit inside the routine, an interrupt), the clean-up runs before the
\* program exits, and every spawned child that is still alive is sent a
\* termination request by it.
C32_CleanupOnEveryExit ==
    [][/\ (mpc # "exited" /\ mpc' = "exited" /\ procs # <<>>) =>
            /\ mpc = "cleanup"
            /\ requested_all(procs', visits')
       /\ (lpc # "done" /\ lpc' = "done" /\ l_procs # <<>>) =>
            /\ lpc = "cleanup"
            /\ requested_all(l_procs', l_visits')]_vars

(***************************************************************************)
(* Claims about the ServiceManager's bookkeeping (checked under SpecSvc)   *)
(***************************************************************************)
\* C33: for any sequence of start_backend / start_webui / start_workflow_ui
\* and cleanup_processes calls on one ServiceManager, every process it spawned
\* that is still alive is referenced by the processes mapping, so that the
\* next cleanup_processes terminates it; starting a service whose earlier
\* process is still running never leaves that earlier process unmanaged.
C33_AliveIsManaged ==
    \A pid \in DOMAIN procs :
        procs[pid] = "running" => \E i \in DOMAIN processes : processes[i].pid = pid

(***************************************************************************)
(* Claims about a child that exits while it is probed (checked under       *)
(* SpecShutdown)                                                           *)
(***************************************************************************)
\* the process registered for the service being started has exited
probed_child_exited ==
    \E i \in DOMAIN processes :
        processes[i].name = service_name /\ procs[processes[i].pid] = "exited"

\* the web-ui process of the IntegratedLauncher has exited
l_probed_child_exited ==
    l_processes # <<>> /\ l_procs[l_processes[Len(l_processes)]] = "exited"

\* C34: the health probe decides only from HTTP responses and never looks at
\* the child: the exit of the process changes nothing in the probe, and when
\* the process has exited while it is probed, every attempt that meets no
\* success response is followed by the sleep and the next attempt until the
\* budget is used up; the start operation then reports the failed health
\* check (returns False), and the handle of the exited process stays
\* registered until the clean-up.
C34_ProbeIgnoresLiveness ==
    [][/\ (pc \in {"probe", "sleep"} /\ procs' # procs) =>
            UNCHANGED <<pc, attempt, timeout, ret, processes>>
       /\ (pc \in {"probe", "sleep"} /\ probed_child_exited /\ interrupted' = interrupted) =>
            /\ processes' = processes
            /\ (pc = "probe" /\ pc' # "probe" /\ last_response' # "200") => pc' = "sleep"
            /\ (pc = "sleep" /\ pc' # "sleep") =>
                  /\ attempt' = attempt + 1
                  /\ IF attempt' < timeout
                     THEN pc' = "probe" /\ ret'[service_name] = "none"
                     ELSE pc' = "idle" /\ ret'[service_name] = "false"
       /\ (lpc = "probe" /\ l_procs' # l_procs) =>
            UNCHANGED <<lpc, l_attempt, l_timeout, l_probe_ret, l_processes>>
       /\ (lpc = "probe" /\ l_probed_child_exited /\ l_probeVars' # l_probeVars) =>
            /\ l_processes' = l_processes
            /\ l_last_response' # "ok" =>
                  /\ l_attempt' = l_attempt + 1
                  /\ IF l_attempt' < l_timeout
                     THEN lpc' = "probe" /\ l_probe_ret' = "none"
                     ELSE lpc' = "wait" /\ l_probe_ret' = "false"
       /\ processes' # processes => (pc = "spawn" \/ (pc = "cleanup" /\ todo = <<>>))]_vars

\* C34 witness: the backend process has exited, its handle is registered, and
\* the probe of start_backend, of which an interrupt ended none, is in the last
\* attempt of its budget
C34_Witness ==
    /\ pc = "probe"
    /\ service_name = "backend"
    /\ probed_child_exited
    /\ timeout = BackendProbeTimeout
    /\ attempt = timeout - 1
    /\ ret["backend"] = "none"
    /\ ~interrupted

(***************************************************************************)
(* Claims about the status command (checked under SpecStatusCommand)       *)
(***************************************************************************)
\* C35: the status command reports from the handles of the ServiceManager of
\* its own invocation only: that invocation has started nothing, so the
\* table it prints has a row for each of backend, webui and ui, each row
\* Stopped with no pid, whatever services another invocation has running.
C35_StatusCommandAllStopped ==
    (command = "status" /\ report.n = 1) =>
        /\ ~report.raised
        /\ DOMAIN report.rows = Services
        /\ \A s \in Services :
              /\ report.rows[s].status = "Stopped"
              /\ report.rows[s].pid = "N/A"

\* C35 witness: the status command has printed its table while another
\* invocation holds the handle of a backend process that is running
C35_Witness ==
    /\ command = "status"
    /\ report.n = 1
    /\ "backend" \in dict_keys(other_processes)
    /\ procs[dict_get(other_processes, "backend")] = "running"
    /\ report.rows["backend"].status = "Stopped"

(***************************************************************************)
(* Claims about a step that depends on itself (checked under Spec)         *)
(***************************************************************************)
\* a step of v has its own identifier among its depends_on
has_self_dependency(v) == \E i \in DOMAIN v : v[i].id \in Range(v[i].depends_on)

\* C38 (as stated): a step collection holding a step that depends on itself
\* is rejected at construction with the circular-dependency error.
C38_SelfDependencyCircularError ==
    (last.op = "construct" /\ has_self_dependency(last.v))
        => last.res = "circular_dependency"

\* C38 (amended): a step collection holding a step that depends on itself is
\* always rejected at construction; the error is the circular-dependency
\* error when the identifiers are unique, the orders are unique and every
\* depends_on resolves.
C38_SelfDependencyRejected ==
    (last.op = "construct" /\ has_self_dependency(last.v))
        => /\ last.res # "ok"
           /\ wf = "rejected"
           /\ (/\ Cardinality(step_ids(last.v)) = Len(last.v)
               /\ Cardinality(orders(last.v)) = Len(last.v)
               /\ all_resolve(last.v))
                  => last.res = "circular_dependency"

\* C38 witness: a collection of two steps, the second of which depends on
\* itself and on nothing else, was rejected as circular
C38_Witness ==
    /\ last.op = "construct"
    /\ Len(last.v) = 2
    /\ last.v[2].depends_on = <<last.v[2].id>>
    /\ last.v[1].depends_on = <<>>
    /\ last.res = "circular_dependency"
    /\ wf = "rejected"

(***************************************************************************)
(* Claims about the counters of a Workflow (checked under SpecExec)        *)
(***************************************************************************)
\* C39: in every state of a Workflow, constructed with any non-negative
\* execution_count and success_count and then run through any sequence of
\* mark_executed calls, success_count <= execution_count, and so
\* success_rate lies between 0 and 1.
C39_SuccessesWithinExecutions ==
    wf = "built" =>
        /\ success_count <= execution_count
        /\ 0 <= success_rate[1]
        /\ success_rate[1] <= success_rate[2]

(***************************************************************************)
(* Claims about start_times and processes (checked under SpecSvc)          *)
(***************************************************************************)
\* C40: in every state of a ServiceManager in which no start operation stands
\* between recording the start time and the Popen call, the services with a
\* recorded start time are the services with a registered handle: a failed
\* spawn records neither, and the clean-up clears both.
C40_StartTimesMatchHandles ==
    pc # "spawn" => DOMAIN start_times = dict_keys(processes)

====
